---------------------------- MODULE Spec2Model ----------------------------
(***************************************************************************)
(* A model of falkor's Python extraction engine                            *)
(* (src/falkor/parsers/python_parser.py): one PythonParser instance, the   *)
(* callers that run parse / extract_entities / extract_relationships on    *)
(* it, and the syntax trees they work on.                                  *)
(*                                                                         *)
(* Strings are sequences of one-character strings, so that f-string        *)
(* concatenation, ".".join, str.endswith and str.startswith are computed   *)
(* character by character.  A syntax tree is a record per ast node; every  *)
(* node has the same fields, of which each kind uses its own:              *)
(*   kind    the ast class name                                            *)
(*   name    FunctionDef/ClassDef .name, Name .id, Attribute .attr,        *)
(*           alias .name, ImportFrom .module, arg .arg                     *)
(*   asname  alias .asname                                                 *)
(*   level   ImportFrom .level                                             *)
(*   f1, f2, f3   the child nodes, in the order of the class's _fields     *)
(*   id      the identity of the node object (ast nodes compare by         *)
(*           identity); ast.parse gives every node a fresh one             *)
(*   lineno, end_lineno   the node's source range; the sources of the      *)
(*           corpus are laid out one node per line, in source order        *)
(* Operator and expression-context nodes (And, Or, Load, Store), which no  *)
(* isinstance test of the parser matches, are left out of the trees.       *)
(***************************************************************************)
EXTENDS Integers, Sequences, FiniteSets

\* ------------------------------------------------------------- bounds
\* The longest module body of the structural corpus.
MaxBody == 2
\* The most operands of one boolean-operator expression.
MaxOperands == 3
\* The most runs (parse, extract_entities, extract_relationships) per caller.
MaxRuns == 2
\* The most class statements of a module body of the class corpus.
MaxClasses == 3

\* ------------------------------------------------------------ strings
\* Python's None where a str is optional: no sequence of characters equals it.
None == <<"None">>

RECURSIVE Join(_, _)
\* sep.join(parts)
Join(sep, parts) ==
  IF parts = <<>> THEN <<>>
  ELSE IF Len(parts) = 1 THEN parts[1]
  ELSE parts[1] \o sep \o Join(sep, Tail(parts))

\* reversed(seq)
Reversed(seq) == [i \in 1..Len(seq) |-> seq[Len(seq) + 1 - i]]

\* s.endswith(suffix)
EndsWith(s, suffix) ==
  /\ Len(suffix) <= Len(s)
  /\ SubSeq(s, Len(s) - Len(suffix) + 1, Len(s)) = suffix

\* s.startswith(prefix)
StartsWith(s, prefix) ==
  /\ Len(prefix) <= Len(s)
  /\ SubSeq(s, 1, Len(prefix)) = prefix

\* char in s
Contains(s, char) == \E i \in 1..Len(s) : s[i] = char

RECURSIVE Flatten(_)
\* The concatenation of a sequence of sequences.
Flatten(seqs) ==
  IF seqs = <<>> THEN <<>> ELSE Head(seqs) \o Flatten(Tail(seqs))

\* The sequences over S of length lo..hi.
SeqsOf(S, lo, hi) == UNION {[1..n -> S] : n \in lo..hi}

Dot == <<".">>
ColonColon == <<":", ":">>

\* -------------------------------------------------------------- nodes
Node(kind, name, f1, f2, f3) ==
  [kind |-> kind, name |-> name, asname |-> None, level |-> 0,
   f1 |-> f1, f2 |-> f2, f3 |-> f3, id |-> 0, lineno |-> 0, end_lineno |-> 0]

Module(body) == Node("Module", None, <<>>, body, <<>>)
Name(id) == Node("Name", id, <<>>, <<>>, <<>>)
Attribute(value, attr) == Node("Attribute", attr, <<value>>, <<>>, <<>>)
Subscript(value, slice) == Node("Subscript", None, <<value>>, <<slice>>, <<>>)
Call(func, args) == Node("Call", None, <<func>>, args, <<>>)
BoolOp(values) == Node("BoolOp", None, <<>>, values, <<>>)
IfExp(test, body, orelse) == Node("IfExp", None, <<test>>, <<body>>, <<orelse>>)
Lambda(body) ==
  Node("Lambda", None, <<Node("arguments", None, <<>>, <<>>, <<>>)>>, <<body>>, <<>>)
Expr(value) == Node("Expr", None, <<value>>, <<>>, <<>>)
Return(value) == Node("Return", None, <<value>>, <<>>, <<>>)
Pass == Node("Pass", None, <<>>, <<>>, <<>>)
AssertStmt(test) == Node("Assert", None, <<test>>, <<>>, <<>>)
If(test, body, orelse) == Node("If", None, <<test>>, body, orelse)
While(test, body) == Node("While", None, <<test>>, body, <<>>)
For(target, iter, body) == Node("For", None, <<target, iter>>, body, <<>>)
AsyncFor(target, iter, body) == Node("AsyncFor", None, <<target, iter>>, body, <<>>)
With(context_expr, body) ==
  Node("With", None, <<Node("withitem", None, <<context_expr>>, <<>>, <<>>)>>, body, <<>>)
AsyncWith(context_expr, body) ==
  Node("AsyncWith", None, <<Node("withitem", None, <<context_expr>>, <<>>, <<>>)>>, body, <<>>)
ExceptHandler(body) == Node("ExceptHandler", None, <<>>, body, <<>>)
Try(body, handlers) == Node("Try", None, body, handlers, <<>>)
\* arguments: f1 the arg nodes, f3 the defaults
Arguments(params, defaults) ==
  Node("arguments", None, [i \in 1..Len(params) |-> Node("arg", params[i], <<>>, <<>>, <<>>)],
       <<>>, defaults)
\* FunctionDef: f1 = <<args>>, f2 = body, f3 = decorator_list
FunctionDef(name, defaults, body, decorator_list) ==
  Node("FunctionDef", name, <<Arguments(<<>>, defaults)>>, body, decorator_list)
AsyncFunctionDef(name, defaults, body, decorator_list) ==
  Node("AsyncFunctionDef", name, <<Arguments(<<>>, defaults)>>, body, decorator_list)
\* ClassDef: f1 = bases, f2 = body, f3 = decorator_list
ClassDef(name, bases, body, decorator_list) ==
  Node("ClassDef", name, bases, body, decorator_list)
Alias(name, asname) ==
  [Node("alias", name, <<>>, <<>>, <<>>) EXCEPT !.asname = asname]
Import(names) == Node("Import", None, names, <<>>, <<>>)
ImportFrom(module, names, level) ==
  [Node("ImportFrom", module, names, <<>>, <<>>) EXCEPT !.level = level]

\* A line of source text that ast.parse rejects with a SyntaxError.
Unparsable == Node("Unparsable", None, <<>>, <<>>, <<>>)

\* ast.iter_child_nodes(node)
Children(node) == node.f1 \o node.f2 \o node.f3

IsFunction(node) == node.kind \in {"FunctionDef", "AsyncFunctionDef"}

RECURSIVE NumberFrom(_, _)
RECURSIVE NumberAll(_, _)
\* The node objects ast.parse builds for a tree: node and its descendants
\* with identities next, next + 1, ... in depth-first order.
\* Returns the tree and the first unused identity.
NumberFrom(node, next) ==
  LET a == NumberAll(node.f1, next + 1)
      b == NumberAll(node.f2, a.next)
      c == NumberAll(node.f3, b.next)
  IN [node |-> [node EXCEPT !.id = next, !.lineno = next,
                            !.end_lineno = c.next - 1,
                            !.f1 = a.nodes, !.f2 = b.nodes, !.f3 = c.nodes],
      next |-> c.next]
NumberAll(nodes, next) ==
  IF nodes = <<>> THEN [nodes |-> <<>>, next |-> next]
  ELSE LET h == NumberFrom(Head(nodes), next)
           t == NumberAll(Tail(nodes), h.next)
       IN [nodes |-> <<h.node>> \o t.nodes, next |-> t.next]

RECURSIVE WalkQueue(_)
\* ast.walk: breadth-first, the queue extended with each node's children
WalkQueue(todo) ==
  IF todo = <<>> THEN <<>>
  ELSE <<Head(todo)>> \o WalkQueue(Tail(todo) \o Children(Head(todo)))
Walk(node) == WalkQueue(<<node>>)


RECURSIVE Sum(_)
Sum(ints) == IF ints = <<>> THEN 0 ELSE Head(ints) + Sum(Tail(ints))

\* ------------------------------------------------------------- dicts
\* A dict is the sequence of its items [key, value] in insertion order.
DictHas(dict, key) == \E i \in 1..Len(dict) : dict[i].key = key

DictGet(dict, key) ==
  dict[CHOOSE i \in 1..Len(dict) : dict[i].key = key].value

\* dict[key] = value: a new key goes last, a known key keeps its place.
DictSet(dict, key, value) ==
  IF DictHas(dict, key)
  THEN [i \in 1..Len(dict) |->
          IF dict[i].key = key THEN [key |-> key, value |-> value] ELSE dict[i]]
  ELSE Append(dict, [key |-> key, value |-> value])

RECURSIVE DictFrom(_, _)
\* The dict after dict[item.key] = item.value for each item in turn.
DictFrom(dict, items) ==
  IF items = <<>> THEN dict
  ELSE DictFrom(DictSet(dict, Head(items).key, Head(items).value), Tail(items))

\* ---------------------------------------------------------- complexity
\* The first isinstance tuple of _calculate_complexity.
DecisionKinds == {"If", "While", "For", "ExceptHandler", "With", "Assert", "BoolOp"}

\* What one node of the walk adds: the if / elif of the loop body.
ComplexityStep(child) ==
  IF child.kind \in DecisionKinds THEN 1
  ELSE IF child.kind = "BoolOp" THEN Len(child.f2) - 1
  ELSE 0

\* _calculate_complexity with ast.iter_child_nodes in place of ast.walk: only
\* the statements directly under the node count.
CalculateComplexityShallow(node) ==
  LET walk == Children(node)
  IN 1 + Sum([i \in 1..Len(walk) |-> ComplexityStep(walk[i])])

\* PythonParser._calculate_complexity
CalculateComplexity(node) ==
  LET walk == Walk(node)
  IN 1 + Sum([i \in 1..Len(walk) |-> ComplexityStep(walk[i])])

\* ------------------------------------------------------------ entities
RECURSIVE AfterLast(_, _)
\* s.split(char)[-1]: what follows the last char of s, all of s without one.
AfterLast(s, char) ==
  IF s = <<>> \/ s[Len(s)] = char THEN <<>>
  ELSE AfterLast(SubSeq(s, 1, Len(s) - 1), char) \o <<s[Len(s)]>>

\* s.rsplit(char, 1)[0], for s that holds char: what precedes the last char.
BeforeLast(s, char) == SubSeq(s, 1, Len(s) - Len(AfterLast(s, char)) - 1)

\* hashlib.md5(content).hexdigest(): a digest is equal for equal content
\* and stands for that content only.
Md5(content) == <<"md5", content>>

\* len([line for line in f if line.strip()]): the sources of the corpus hold
\* one node per line and no blank line, the Module node being no line.
CountLoc(content) == NumberFrom(content, 0).next - 1

\* os.path.normpath(file_path), for the paths of this model: without a
\* leading "./".
NormPath(file_path) ==
  IF StartsWith(file_path, <<".", "/">>) THEN SubSeq(file_path, 3, Len(file_path))
  ELSE file_path

\* _create_file_entity with the File named by its normalised path.
CreateFileEntityNormalised(file_path, content) ==
  [node_type |-> "File",
   name |-> AfterLast(file_path, "/"),
   qualified_name |-> NormPath(file_path),
   file_path |-> NormPath(file_path),
   line_start |-> 1,
   line_end |-> CountLoc(content),
   language |-> "python",
   loc |-> CountLoc(content),
   hash |-> Md5(content)]

\* PythonParser._create_file_entity; content is what the file at file_path
\* holds when it is opened.
CreateFileEntity(file_path, content) ==
  [node_type |-> "File",
   name |-> AfterLast(file_path, "/"),
   qualified_name |-> file_path,
   file_path |-> file_path,
   line_start |-> 1,
   line_end |-> CountLoc(content),
   language |-> "python",
   loc |-> CountLoc(content),
   hash |-> Md5(content)]

\* node.end_lineno or node.lineno
EndLine(node) == IF node.end_lineno # 0 THEN node.end_lineno ELSE node.lineno

\* PythonParser._extract_class
ExtractClass(node, file_path) ==
  [node_type |-> "Class",
   name |-> node.name,
   qualified_name |-> file_path \o ColonColon \o node.name,
   file_path |-> file_path,
   line_start |-> node.lineno,
   line_end |-> EndLine(node),
   is_abstract |-> \E i \in 1..Len(node.f1) :
                      node.f1[i].kind = "Name" /\ node.f1[i].name = <<"A", "B", "C">>,
   complexity |-> CalculateComplexity(node)]

\* PythonParser._extract_function; class_name is None for a function.
ExtractFunction(node, file_path, class_name) ==
  [node_type |-> "Function",
   name |-> node.name,
   qualified_name |->
     IF class_name # None
     THEN file_path \o ColonColon \o class_name \o Dot \o node.name
     ELSE file_path \o ColonColon \o node.name,
   file_path |-> file_path,
   line_start |-> node.lineno,
   line_end |-> EndLine(node),
   parameters |-> [i \in 1..Len(node.f1[1].f1) |-> node.f1[1].f1[i].name],
   complexity |-> CalculateComplexity(node),
   is_async |-> node.kind = "AsyncFunctionDef"]

\* _is_top_level without the test that the function is in tree.body.
IsTopLevelAnywhere(node, tree) == tree.kind = "Module"

\* PythonParser._is_top_level: node in tree.body
IsTopLevel(node, tree) ==
  /\ tree.kind = "Module"
  /\ \E i \in 1..Len(tree.f2) : tree.f2[i] = node

\* PythonParser._get_package_name
GetPackageName(module_name) ==
  IF Contains(module_name, ".") THEN BeforeLast(module_name, ".") ELSE None

ModuleEntity(module_name, file_path, node) ==
  [node_type |-> "Module",
   name |-> AfterLast(module_name, "."),
   qualified_name |-> module_name,
   file_path |-> file_path,
   line_start |-> node.lineno,
   line_end |-> node.lineno,
   is_external |-> TRUE,
   package |-> GetPackageName(module_name)]

\* node.module or ""
FromModule(node) == IF node.name = None THEN <<>> ELSE node.name

RECURSIVE ModulesOf(_, _, _)
\* The loop of _extract_modules over the statements of tree.body: modules is
\* the dict qualified name -> ModuleEntity so far, a known name kept as it is.
ModulesOf(modules, body, file_path) ==
  IF body = <<>> THEN modules
  ELSE LET node == Head(body)
           names ==
             IF node.kind = "Import"
             THEN [i \in 1..Len(node.f1) |-> node.f1[i].name]
             ELSE IF node.kind = "ImportFrom" /\ FromModule(node) # <<>>
             THEN <<FromModule(node)>>
             ELSE <<>>
           fresh == SelectSeq(names, LAMBDA n : ~DictHas(modules, n))
           items == [i \in 1..Len(fresh) |->
                       [key |-> fresh[i],
                        value |-> ModuleEntity(fresh[i], file_path, node)]]
       IN ModulesOf(DictFrom(modules, items), Tail(body), file_path)

\* _extract_modules with a dict of modules per statement: a module imported
\* by two statements gets two entities.
ExtractModulesPerStatement(tree, file_path) ==
  Flatten([k \in 1..Len(tree.f2) |->
             LET modules == ModulesOf(<<>>, <<tree.f2[k]>>, file_path)
             IN [i \in 1..Len(modules) |-> modules[i].value]])

\* _extract_modules over ast.walk(tree) in place of tree.body: nested import
\* statements are scanned too.
ExtractModulesOfWalk(tree, file_path) ==
  LET modules == ModulesOf(<<>>, Walk(tree), file_path)
  IN [i \in 1..Len(modules) |-> modules[i].value]

\* PythonParser._extract_modules
ExtractModules(tree, file_path) ==
  LET modules == ModulesOf(<<>>, tree.f2, file_path)
  IN [i \in 1..Len(modules) |-> modules[i].value]

\* What the loop of extract_entities appends for one node of the walk.
EntitiesOfNode(node, tree, file_path) ==
  IF node.kind = "ClassDef"
  THEN LET methods == SelectSeq(node.f2, IsFunction)
       IN <<ExtractClass(node, file_path)>>
            \o [i \in 1..Len(methods) |->
                  ExtractFunction(methods[i], file_path, node.name)]
  ELSE IF IsFunction(node) /\ IsTopLevel(node, tree)
  THEN <<ExtractFunction(node, file_path, None)>>
  ELSE <<>>

\* self.file_entity of an instance that has extracted nothing yet: None.
NoEntity == [node_type |-> "None"]

\* PythonParser.__init__
NewPythonParser == [file_entity |-> NoEntity, entity_map |-> <<>>]

\* extract_entities creating the File entity only when the instance holds
\* none yet.
ExtractEntitiesOnce(self, tree, file_path, content) ==
  LET file_entity == CreateFileEntity(file_path, content)
      walk == Walk(tree)
  IN [entities |->
        (IF self.file_entity = NoEntity THEN <<file_entity>> ELSE <<>>)
          \o Flatten([i \in 1..Len(walk) |-> EntitiesOfNode(walk[i], tree, file_path)])
          \o ExtractModules(tree, file_path),
      self |-> [self EXCEPT !.file_entity = file_entity]]

\* extract_entities on an instance that keeps the list it returns: the File
\* entity it holds from the call before comes first.
ExtractEntitiesKept(self, tree, file_path, content) ==
  LET file_entity == CreateFileEntity(file_path, content)
      walk == Walk(tree)
  IN [entities |->
        (IF self.file_entity = NoEntity THEN <<>> ELSE <<self.file_entity>>)
          \o <<file_entity>>
          \o Flatten([i \in 1..Len(walk) |-> EntitiesOfNode(walk[i], tree, file_path)])
          \o ExtractModules(tree, file_path),
      self |-> [self EXCEPT !.file_entity = file_entity]]

\* PythonParser.extract_entities on the instance self: the entities
\* returned and the instance afterwards.
ExtractEntities(self, tree, file_path, content) ==
  LET file_entity == CreateFileEntity(file_path, content)
      walk == Walk(tree)
  IN [entities |->
        <<file_entity>>
          \o Flatten([i \in 1..Len(walk) |-> EntitiesOfNode(walk[i], tree, file_path)])
          \o ExtractModules(tree, file_path),
      self |-> [self EXCEPT !.file_entity = file_entity]]

\* ------------------------------------------------------- relationships
Relationship(source_id, target_id, rel_type, properties) ==
  [source_id |-> source_id, target_id |-> target_id, rel_type |-> rel_type,
   properties |-> properties]

\* The IMPORTS relationships of one statement of tree.body, the target of a
\* from-import always module_name "." imported_name.
ImportsOfNodeQualified(node, file_entity_name) ==
  IF node.kind = "Import"
  THEN [i \in 1..Len(node.f1) |->
          Relationship(file_entity_name, node.f1[i].name, "IMPORTS",
                       [alias |-> node.f1[i].asname, line |-> node.lineno])]
  ELSE IF node.kind = "ImportFrom"
  THEN [i \in 1..Len(node.f1) |->
          Relationship(file_entity_name,
                       FromModule(node) \o Dot \o node.f1[i].name,
                       "IMPORTS",
                       [alias |-> node.f1[i].asname,
                        from_module |-> FromModule(node),
                        imported_name |-> node.f1[i].name,
                        relative_level |-> node.level,
                        line |-> node.lineno])]
  ELSE <<>>

\* The IMPORTS relationships of one statement of tree.body.
ImportsOfNode(node, file_entity_name) ==
  IF node.kind = "Import"
  THEN [i \in 1..Len(node.f1) |->
          Relationship(file_entity_name, node.f1[i].name, "IMPORTS",
                       [alias |-> node.f1[i].asname, line |-> node.lineno])]
  ELSE IF node.kind = "ImportFrom"
  THEN [i \in 1..Len(node.f1) |->
          Relationship(file_entity_name,
                       IF FromModule(node) # <<>>
                       THEN FromModule(node) \o Dot \o node.f1[i].name
                       ELSE node.f1[i].name,
                       "IMPORTS",
                       [alias |-> node.f1[i].asname,
                        from_module |-> FromModule(node),
                        imported_name |-> node.f1[i].name,
                        relative_level |-> node.level,
                        line |-> node.lineno])]
  ELSE <<>>

RECURSIVE AttributeParts(_)
\* The parts list of _get_call_name and _get_base_class_name: the attrs of
\* the chain from the outside in, then the id of a Name at its root.
AttributeParts(current) ==
  IF current.kind = "Attribute"
  THEN <<current.name>> \o AttributeParts(current.f1[1])
  ELSE IF current.kind = "Name" THEN <<current.name>>
  ELSE <<>>

\* CallVisitor._get_call_name
GetCallName(node) ==
  LET func == node.f1[1]
  IN IF func.kind = "Name" THEN func.name
     ELSE IF func.kind = "Attribute" THEN Join(Dot, Reversed(AttributeParts(func)))
     ELSE None

\* The caller of visit_Call, for a function stack that is not empty.
CallerName(file_path, current_class, function_stack) ==
  IF current_class # None
  THEN file_path \o ColonColon \o current_class \o Dot \o Join(Dot, function_stack)
  ELSE file_path \o ColonColon \o Join(Dot, function_stack)

\* CallVisitor.visit_Call, before its generic_visit: what it appends to calls.
VisitCall(node, file_path, current_class, function_stack) ==
  IF function_stack # <<>> /\ GetCallName(node) # None
  THEN <<[caller |-> CallerName(file_path, current_class, function_stack),
          callee |-> GetCallName(node),
          line |-> node.lineno]>>
  ELSE <<>>

RECURSIVE Visit(_, _, _, _)
RECURSIVE GenericVisit(_, _, _, _)
\* CallVisitor.visit(node) with the visitor's current_class and
\* function_stack as they are on entry: the calls it appends, in order.
Visit(node, file_path, current_class, function_stack) ==
  IF node.kind = "ClassDef"
  THEN GenericVisit(Children(node), file_path, node.name, function_stack)
  ELSE IF IsFunction(node)
  THEN GenericVisit(Children(node), file_path, current_class,
                    Append(function_stack, node.name))
  ELSE IF node.kind = "Call"
  THEN VisitCall(node, file_path, current_class, function_stack)
         \o GenericVisit(Children(node), file_path, current_class, function_stack)
  ELSE GenericVisit(Children(node), file_path, current_class, function_stack)
\* NodeVisitor.generic_visit: the child nodes in field order.
GenericVisit(nodes, file_path, current_class, function_stack) ==
  IF nodes = <<>> THEN <<>>
  ELSE Visit(Head(nodes), file_path, current_class, function_stack)
         \o GenericVisit(Tail(nodes), file_path, current_class, function_stack)

\* entity_map = {e.qualified_name: e for e in entities}
EntityMap(entities) ==
  DictFrom(<<>>, [i \in 1..Len(entities) |->
                    [key |-> entities[i].qualified_name, value |-> entities[i]]])

\* The resolution loop of _extract_calls without its break: the last item of
\* entity_map that matches wins.
ResolveCalleeLast(callee, entity_map) ==
  LET Matches(i) ==
        \/ entity_map[i].value.name = callee
        \/ EndsWith(entity_map[i].key, ColonColon \o callee)
      hits == {i \in 1..Len(entity_map) : Matches(i)}
  IN IF hits = {} THEN callee
     ELSE entity_map[CHOOSE i \in hits : \A j \in hits : i >= j].key

\* The resolution loop of _extract_calls for one callee: the first item of
\* entity_map that matches, the callee itself when none does.
ResolveCallee(callee, entity_map) ==
  LET Matches(i) ==
        \/ entity_map[i].value.name = callee
        \/ EndsWith(entity_map[i].key, ColonColon \o callee)
      hits == {i \in 1..Len(entity_map) : Matches(i)}
  IN IF hits = {} THEN callee
     ELSE entity_map[CHOOSE i \in hits : \A j \in hits : i <= j].key

\* PythonParser._extract_calls: the relationships it appends.
ExtractCalls(tree, file_path, entity_map) ==
  LET calls == Visit(tree, file_path, None, <<>>)
  IN [i \in 1..Len(calls) |->
        Relationship(calls[i].caller, ResolveCallee(calls[i].callee, entity_map),
                     "CALLS",
                     [line |-> calls[i].line, call_name |-> calls[i].callee])]

\* _get_base_class_name without its Subscript branch: a generic base has no
\* name.
GetBaseClassNameOfChain(node) ==
  IF node.kind = "Name" THEN node.name
  ELSE IF node.kind = "Attribute" THEN Join(Dot, Reversed(AttributeParts(node)))
  ELSE None

RECURSIVE GetBaseClassName(_)
\* PythonParser._get_base_class_name
GetBaseClassName(node) ==
  IF node.kind = "Name" THEN node.name
  ELSE IF node.kind = "Attribute" THEN Join(Dot, Reversed(AttributeParts(node)))
  ELSE IF node.kind = "Subscript" THEN GetBaseClassName(node.f1[1])
  ELSE None

\* The ClassDef nodes of ast.walk(tree), in its order.
ClassDefs(tree) == SelectSeq(Walk(tree), LAMBDA n : n.kind = "ClassDef")

\* The INHERITS relationships of one class with the base name as written for
\* their target, whether the file defines the base or not.
InheritsOfClassAsWritten(node, file_path, local_classes) ==
  LET named == SelectSeq(node.f1, LAMBDA b : GetBaseClassName(b) # None)
  IN [i \in 1..Len(named) |->
        LET base_name == GetBaseClassName(named[i])
        IN Relationship(file_path \o ColonColon \o node.name, base_name, "INHERITS",
                        [base_class |-> base_name, line |-> node.lineno])]

\* The INHERITS relationships of one class: one per base that has a name.
InheritsOfClass(node, file_path, local_classes) ==
  LET named == SelectSeq(node.f1, LAMBDA b : GetBaseClassName(b) # None)
  IN [i \in 1..Len(named) |->
        LET base_name == GetBaseClassName(named[i])
        IN Relationship(file_path \o ColonColon \o node.name,
                        IF base_name \in local_classes
                        THEN file_path \o ColonColon \o base_name
                        ELSE base_name,
                        "INHERITS",
                        [base_class |-> base_name, line |-> node.lineno])]

\* PythonParser._extract_inheritance: the relationships it appends.
ExtractInheritance(tree, file_path) ==
  LET classes == ClassDefs(tree)
      local_classes == {classes[i].name : i \in 1..Len(classes)}
  IN Flatten([i \in 1..Len(classes) |->
                InheritsOfClass(classes[i], file_path, local_classes)])

\* methods of _extract_overrides: method name -> qualified name, for the
\* functions of the class body.
MethodsOf(node, file_path) ==
  LET items == SelectSeq(node.f2, IsFunction)
  IN DictFrom(<<>>, [i \in 1..Len(items) |->
        [key |-> items[i].name,
         value |-> file_path \o ColonColon \o node.name \o Dot \o items[i].name]])

\* class_info of _extract_overrides: class name -> (node, methods)
ClassInfo(tree, file_path) ==
  LET classes == ClassDefs(tree)
  IN DictFrom(<<>>, [i \in 1..Len(classes) |->
        [key |-> classes[i].name,
         value |-> [node |-> classes[i],
                    methods |-> MethodsOf(classes[i], file_path)]]])

\* method_name.startswith("__") and method_name.endswith("__")
IsDunder(method_name) ==
  StartsWith(method_name, <<"_", "_">>) /\ EndsWith(method_name, <<"_", "_">>)

\* The OVERRIDES relationships of one class and one of its base expressions.
OverridesOfBase(class_name, child_methods, base, class_info) ==
  LET base_name == GetBaseClassName(base)
  IN IF base_name = None \/ ~DictHas(class_info, base_name) THEN <<>>
     ELSE LET parent_methods == DictGet(class_info, base_name).methods
              hits == SelectSeq(child_methods,
                        LAMBDA m : DictHas(parent_methods, m.key) /\ ~IsDunder(m.key))
          IN [i \in 1..Len(hits) |->
                Relationship(hits[i].value, DictGet(parent_methods, hits[i].key),
                             "OVERRIDES",
                             [method_name |-> hits[i].key,
                              child_class |-> class_name,
                              parent_class |-> base_name])]

\* PythonParser._extract_overrides: the relationships it appends.
ExtractOverrides(tree, file_path) ==
  LET class_info == ClassInfo(tree, file_path)
  IN Flatten([i \in 1..Len(class_info) |->
        LET bases == class_info[i].value.node.f1
        IN Flatten([j \in 1..Len(bases) |->
              OverridesOfBase(class_info[i].key, class_info[i].value.methods,
                              bases[j], class_info)])])

\* The CONTAINS loop of extract_relationships.
ContainsOf(entities, file_qualified_name) ==
  LET others == SelectSeq(entities, LAMBDA e : e.node_type # "File")
  IN [i \in 1..Len(others) |->
        Relationship(file_qualified_name, others[i].qualified_name, "CONTAINS",
                     [none |-> TRUE])]

\* extract_relationships taking the File's name from self.file_entity, which
\* the last extract_entities on the instance stored.
ExtractRelationshipsOfInstance(self, tree, file_path, entities) ==
  Flatten([i \in 1..Len(tree.f2) |->
             ImportsOfNode(tree.f2[i], self.file_entity.qualified_name)])
    \o ExtractCalls(tree, file_path, EntityMap(entities))
    \o ExtractInheritance(tree, file_path)
    \o ExtractOverrides(tree, file_path)
    \o ContainsOf(entities, self.file_entity.qualified_name)

\* PythonParser.extract_relationships on the instance self.
ExtractRelationships(self, tree, file_path, entities) ==
  Flatten([i \in 1..Len(tree.f2) |-> ImportsOfNode(tree.f2[i], file_path)])
    \o ExtractCalls(tree, file_path, EntityMap(entities))
    \o ExtractInheritance(tree, file_path)
    \o ExtractOverrides(tree, file_path)
    \o ContainsOf(entities, file_path)

\* ------------------------------------------------------------- corpus
\* The identifiers of the corpus.
NameF == <<"f">>
NameG == <<"g">>
NameA == <<"A">>
NameB == <<"B">>
NameC == <<"c">>
NameDunder == <<"_", "_", "a", "_", "_">>

\* f()
CallF == Call(Name(NameF), <<>>)
\* def f(): pass
DefPass(name) == FunctionDef(name, <<>>, <<Pass>>, <<>>)
\* def name(): f()
DefCalling(name) == FunctionDef(name, <<>>, <<Expr(CallF)>>, <<>>)

\* The statements of a module body of the structural corpus.
TopStmts ==
  {\* def g(): one call of each shape, and lambda: f()
   FunctionDef(NameG, <<>>,
               <<Expr(CallF),
                 Expr(Call(Attribute(Name(<<"a">>), NameF), <<>>)),
                 Expr(Call(Attribute(Attribute(Name(<<"a">>), <<"b">>), NameF), <<>>)),
                 Expr(Call(Attribute(CallF, NameG), <<>>)),
                 Expr(Call(CallF, <<>>)),
                 Expr(Call(Subscript(Name(NameF), Name(<<"a">>)), <<>>)),
                 Return(Lambda(CallF))>>, <<>>),
   \* def f():
   \*     import c
   \*     from c import f
   \*     def g(): f()
   \*     class A:
   \*         def g(): f()
   FunctionDef(NameF, <<>>,
               <<Import(<<Alias(NameC, None)>>),
                 ImportFrom(NameC, <<Alias(NameF, None)>>, 0),
                 DefCalling(NameG),
                 ClassDef(NameA, <<>>, <<DefCalling(NameG)>>, <<>>)>>, <<>>),
   \* @f()
   \* async def g(x=f()): pass
   Node("AsyncFunctionDef", NameG, <<Arguments(<<<<"x">>>>, <<CallF>>)>>, <<Pass>>,
        <<CallF>>),
   \* class A:
   \*     f()
   \*     def f(): f()
   \*     def __a__(): pass
   ClassDef(NameA, <<>>, <<Expr(CallF), DefCalling(NameF), DefPass(NameDunder)>>, <<>>),
   \* class A:
   \*     def f(): pass
   \*     def f(): pass
   \*     import c
   ClassDef(NameA, <<>>,
            <<DefPass(NameF), DefPass(NameF), Import(<<Alias(NameC, None)>>)>>, <<>>),
   \* class B(A, a.b.A, A[a], f(), f().A):
   \*     def f():
   \*         def g(): f()
   \*     def __a__(): pass
   ClassDef(NameB,
            <<Name(NameA),
              Attribute(Attribute(Name(<<"a">>), <<"b">>), NameA),
              Subscript(Name(NameA), Name(<<"a">>)),
              CallF,
              Attribute(CallF, NameA)>>,
            <<FunctionDef(NameF, <<>>, <<DefCalling(NameG)>>, <<>>),
              DefPass(NameDunder)>>, <<>>),
   \* if f():
   \*     def g(): f()
   \*     from c import f
   If(CallF, <<DefCalling(NameG), ImportFrom(NameC, <<Alias(NameF, None)>>, 0)>>, <<>>),
   \* import a.b, f as g
   Import(<<Alias(<<"a", ".", "b">>, None), Alias(NameF, NameG)>>),
   \* from . import f as g
   ImportFrom(None, <<Alias(NameF, NameG)>>, 1),
   \* from .a.b import f as g, g
   ImportFrom(<<"a", ".", "b">>, <<Alias(NameF, NameG), Alias(NameG, None)>>, 1)}

\* The sources of the structural corpus: module bodies of up to MaxBody
\* statements.
StructuralSources == {Module(body) : body \in SeqsOf(TopStmts, 0, MaxBody)}

NameX == Name(<<"a">>)
\* a and a and ... (operands of them)
BoolOpOf(operands) == BoolOp([i \in 1..operands |-> NameX])

\* The statements of a body of the complexity corpus.
ComplexityStmts ==
  \* if a and a ...: pass, one per number of operands
  {If(BoolOpOf(k), <<Pass>>, <<>>) : k \in 2..MaxOperands}
  \cup {\* if a: pass
        If(NameX, <<Pass>>, <<>>),
        \* if a: pass
        \* elif a: pass
        If(NameX, <<Pass>>, <<If(NameX, <<Pass>>, <<>>)>>),
        \* while a: assert a
        While(NameX, <<AssertStmt(NameX)>>),
        \* for a in a:
        \*     async for a in a: pass
        For(NameX, NameX, <<AsyncFor(NameX, NameX, <<Pass>>)>>),
        \* with a:
        \*     async with a: pass
        With(NameX, <<AsyncWith(NameX, <<Pass>>)>>),
        \* try: pass
        \* except: pass
        \* except: pass
        Try(<<Pass>>, <<ExceptHandler(<<Pass>>), ExceptHandler(<<Pass>>)>>),
        \* return a if a else (a or (a and a))
        Return(IfExp(NameX, NameX, BoolOp(<<NameX, BoolOpOf(2)>>))),
        \* def g():
        \*     if a: pass
        FunctionDef(NameG, <<>>, <<If(NameX, <<Pass>>, <<>>)>>, <<>>)}

\* The sources of the complexity corpus: a function, and a class, whose
\* body is up to MaxBody of those statements.
ComplexitySources ==
  UNION {{Module(<<FunctionDef(NameF, <<>>, body, <<>>)>>),
          Module(<<ClassDef(NameA, <<>>, body, <<>>)>>)} :
         body \in SeqsOf(ComplexityStmts, 1, MaxBody)}

\* The sources of two files parsed on one instance.
SharedSources ==
  {Module(<<>>),
   Module(<<FunctionDef(NameF, <<>>, <<DefCalling(NameG)>>, <<>>)>>),
   Module(<<ClassDef(NameA, <<>>, <<DefPass(NameF), DefCalling(NameF)>>, <<>>)>>),
   Module(<<Import(<<Alias(<<"a", ".", "b">>, None)>>), DefCalling(NameG)>>)}

\* The class statements of the class corpus.
ClassStmts ==
  {\* class A:
   \*     def f(): pass
   \*     def __a__(): pass
   ClassDef(NameA, <<>>, <<DefPass(NameF), DefPass(NameDunder)>>, <<>>),
   \* class A:
   \*     def g(): pass
   ClassDef(NameA, <<>>, <<DefPass(NameG)>>, <<>>),
   \* class B(A):
   \*     def f(): pass
   \*     def __a__(): pass
   ClassDef(NameB, <<Name(NameA)>>, <<DefPass(NameF), DefPass(NameDunder)>>, <<>>),
   \* class B(A):
   \*     def g(): pass
   ClassDef(NameB, <<Name(NameA)>>, <<DefPass(NameG)>>, <<>>),
   \* class A(A):
   \*     def f(): pass
   ClassDef(NameA, <<Name(NameA)>>, <<DefPass(NameF)>>, <<>>)}

\* The sources of the class corpus: module bodies of up to MaxClasses class
\* statements, a class name defined more than once among them.
ClassSources == {Module(body) : body \in SeqsOf(ClassStmts, 1, MaxClasses)}

\* The sources of the files of a run in which calls fail: a valid one, an
\* empty one, and two that ast.parse rejects.
FailureSources ==
  {Module(<<>>),
   \* import a.b
   \* def g(): f()
   Module(<<Import(<<Alias(<<"a", ".", "b">>, None)>>), DefCalling(NameG)>>),
   \* def (
   Module(<<Unparsable>>),
   \* def f(): pass
   \* def (
   Module(<<DefPass(NameF), Unparsable>>)}

\* What the environment rewrites a file with.
\* class A:
\*     def f(): f()
RewrittenSource == Module(<<ClassDef(NameA, <<>>, <<DefCalling(NameF)>>, <<>>)>>)

\* The file paths a caller passes.
PathM == <<"m", ".", "p", "y">>
PathN == <<".", "/", "n", ".", "p", "y">>
FilePaths == {PathM, PathN}

\* -------------------------------------------------------------- state
VARIABLES
  fs,             \* file path -> the source the file holds
  self,           \* the fields of the PythonParser instance
  paths,          \* caller -> the file_path it passes
  pc,             \* caller -> where it is in its run
  tree,           \* caller -> the tree parse returned to it
  entities,       \* caller -> the list extract_entities returned to it
  relationships,  \* caller -> the list extract_relationships returned to it
  run,            \* caller -> the number of its run
  prev,           \* caller -> the results of its run before
  environ,        \* os.environ: variable name -> value
  frame,          \* the call in progress outside the parser, with its locals
  outcome,        \* what that call returned or raised
  client          \* the Neo4jClient of a GraphSchema

vars ==
  <<fs, self, paths, pc, tree, entities, relationships, run, prev,
    environ, frame, outcome, client>>

\* What lies outside the parser: the configuration module and the graph
\* schema.
outside == <<environ, frame, outcome, client>>

NoCall == [op |-> "None"]
NoClient == [kind |-> "None"]

\* Nothing is called outside the parser.
OutsideIdle ==
  /\ environ = <<>>
  /\ frame = NoCall
  /\ outcome = NoCall
  /\ client = NoClient

Callers == DOMAIN paths

NoTree == [kind |-> "None"]
NoResults ==
  [entities |-> <<>>, relationships |-> <<>>, run |-> 0, pc |-> "idle", path |-> None,
   parsed |-> FALSE]

\* What a caller keeps of the run it ends.
Results(c) ==
  [entities |-> entities[c], relationships |-> relationships[c], run |-> run[c],
   pc |-> pc[c], path |-> paths[c], parsed |-> tree[c] # NoTree]

\* The state in which the callers of callerPaths have yet to start on the
\* parser instance, the files holding files.
ParserSetup(instance, callerPaths, files) ==
  /\ fs = files
  /\ self = instance
  /\ paths = callerPaths
  /\ pc = [c \in DOMAIN callerPaths |-> "idle"]
  /\ tree = [c \in DOMAIN callerPaths |-> NoTree]
  /\ entities = [c \in DOMAIN callerPaths |-> <<>>]
  /\ relationships = [c \in DOMAIN callerPaths |-> <<>>]
  /\ run = [c \in DOMAIN callerPaths |-> 1]
  /\ prev = [c \in DOMAIN callerPaths |-> NoResults]

\* The same, with nothing called outside the parser.
SetupOn(instance, callerPaths, files) ==
  /\ ParserSetup(instance, callerPaths, files)
  /\ OutsideIdle

\* The same on a parser just constructed.
Setup(callerPaths, files) == SetupOn(NewPythonParser, callerPaths, files)

\* One caller, one file of the structural corpus, passed as "./n.py".
Init ==
  \E source \in StructuralSources : Setup(<<PathN>>, [q \in {PathN} |-> source])

\* What a path holds when open(file_path) raises: the file is removed or
\* unreadable.
NoFile == [kind |-> "NoFile"]

\* The outcome of a call that raises instead of returning.
Raises == [kind |-> "Raises"]

\* Whether ast.parse accepts a source: no line of it is unparsable.
IsValidSource(source) ==
  \A i \in 1..Len(Walk(source)) : Walk(source)[i].kind # "Unparsable"

\* parse returning the tree of the lines ast.parse accepts, for a source
\* with a line it rejects.
ParseFileTolerant(files, file_path) ==
  IF files[file_path] = NoFile THEN Raises
  ELSE NumberFrom(Module(SelectSeq(files[file_path].f2,
                                   LAMBDA node : node.kind # "Unparsable")), 0).node

\* PythonParser.parse: the file is read and ast.parse builds the tree; open
\* raises for a file that is not there, ast.parse for a source that is not
\* valid.
ParseFile(files, file_path) ==
  IF files[file_path] = NoFile THEN Raises
  ELSE IF ~IsValidSource(files[file_path]) THEN Raises
  ELSE NumberFrom(files[file_path], 0).node

Parse(c) ==
  /\ pc[c] = "idle"
  /\ LET result == ParseFile(fs, paths[c])
     IN IF result = Raises
        THEN /\ pc' = [pc EXCEPT ![c] = "raised"]
             /\ UNCHANGED tree
        ELSE /\ pc' = [pc EXCEPT ![c] = "parsed"]
             /\ tree' = [tree EXCEPT ![c] = result]
  /\ UNCHANGED <<fs, self, paths, entities, relationships, run, prev>>
  /\ UNCHANGED outside

\* extract_entities opens the file again for its hash and its lines: open
\* raises, before anything is stored, for a file that is no longer there.
DoExtractEntities(c) ==
  /\ pc[c] = "parsed"
  /\ IF fs[paths[c]] = NoFile
     THEN /\ pc' = [pc EXCEPT ![c] = "raised"]
          /\ UNCHANGED <<entities, self>>
     ELSE LET result == ExtractEntities(self, tree[c], paths[c], fs[paths[c]])
          IN /\ entities' = [entities EXCEPT ![c] = result.entities]
             /\ self' = result.self
             /\ pc' = [pc EXCEPT ![c] = "extracted"]
  /\ UNCHANGED <<fs, paths, tree, relationships, run, prev>>
  /\ UNCHANGED outside

DoExtractRelationships(c) ==
  /\ pc[c] = "extracted"
  /\ relationships' =
       [relationships EXCEPT ![c] =
          ExtractRelationships(self, tree[c], paths[c], entities[c])]
  /\ pc' = [pc EXCEPT ![c] = "done"]
  /\ UNCHANGED <<fs, self, paths, tree, entities, run, prev>>
  /\ UNCHANGED outside

\* The caller keeps what its run returned and starts over on the same file.
Again(c) ==
  /\ pc[c] = "done"
  /\ run[c] < MaxRuns
  /\ prev' = [prev EXCEPT ![c] = Results(c)]
  /\ run' = [run EXCEPT ![c] = run[c] + 1]
  /\ pc' = [pc EXCEPT ![c] = "idle"]
  /\ tree' = [tree EXCEPT ![c] = NoTree]
  /\ entities' = [entities EXCEPT ![c] = <<>>]
  /\ relationships' = [relationships EXCEPT ![c] = <<>>]
  /\ UNCHANGED <<fs, self, paths>>
  /\ UNCHANGED outside

\* Between runs the callers go on with another PythonParser instance.
NewInstance ==
  /\ \A c \in Callers : pc[c] = "idle"
  /\ self # NewPythonParser
  /\ self' = NewPythonParser
  /\ UNCHANGED <<fs, paths, pc, tree, entities, relationships, run, prev>>
  /\ UNCHANGED outside

Next ==
  \/ \E c \in Callers : Parse(c)
  \/ \E c \in Callers : DoExtractEntities(c)
  \/ \E c \in Callers : DoExtractRelationships(c)
  \/ \E c \in Callers : Again(c)
  \/ NewInstance

Spec == Init /\ [][Next]_vars

\* The caller goes on to another file, whether its run returned or raised.
NextFile(c) ==
  /\ pc[c] \in {"done", "raised"}
  /\ run[c] < MaxRuns
  /\ \E p \in DOMAIN fs :
       /\ p # paths[c]
       /\ paths' = [paths EXCEPT ![c] = p]
  /\ prev' = [prev EXCEPT ![c] = Results(c)]
  /\ run' = [run EXCEPT ![c] = run[c] + 1]
  /\ pc' = [pc EXCEPT ![c] = "idle"]
  /\ tree' = [tree EXCEPT ![c] = NoTree]
  /\ entities' = [entities EXCEPT ![c] = <<>>]
  /\ relationships' = [relationships EXCEPT ![c] = <<>>]
  /\ UNCHANGED <<fs, self>>
  /\ UNCHANGED outside

\* The environment removes a file, or makes it unreadable.
Remove(p) ==
  /\ fs[p] # NoFile
  /\ fs' = [fs EXCEPT ![p] = NoFile]
  /\ UNCHANGED <<self, paths, pc, tree, entities, relationships, run, prev>>
  /\ UNCHANGED outside

\* The environment rewrites a file, once, with another valid source.
Rewrite(p) ==
  /\ fs[p] \in FailureSources
  /\ fs' = [fs EXCEPT ![p] = RewrittenSource]
  /\ UNCHANGED <<self, paths, pc, tree, entities, relationships, run, prev>>
  /\ UNCHANGED outside

\* One caller and two files, of which any may be invalid, on an instance
\* that is new or has extracted the other file before.
InitFailures ==
  \E sm \in FailureSources : \E sn \in FailureSources : \E first \in FilePaths :
    LET files == [q \in FilePaths |-> IF q = PathM THEN sm ELSE sn]
        other == CHOOSE q \in FilePaths : q # first
    IN \E instance \in
            {NewPythonParser}
              \cup (IF IsValidSource(files[other])
                    THEN {ExtractEntities(NewPythonParser, ParseFile(files, other),
                                          other, files[other]).self}
                    ELSE {}) :
         SetupOn(instance, <<first>>, files)

NextFailures ==
  \/ Next
  \/ \E c \in Callers : NextFile(c)
  \/ \E p \in DOMAIN fs : Remove(p)
  \/ \E p \in DOMAIN fs : Rewrite(p)

SpecFailures == InitFailures /\ [][NextFailures]_vars

\* One caller, one file of the complexity corpus.
InitComplexity ==
  \E source \in ComplexitySources : Setup(<<PathM>>, [q \in {PathM} |-> source])

SpecComplexity == InitComplexity /\ [][Next]_vars

\* Two callers of one instance, each with a file of its own.
InitShared ==
  \E s1 \in SharedSources : \E s2 \in SharedSources :
    Setup(<<PathM, PathN>>, [q \in {PathM, PathN} |-> IF q = PathM THEN s1 ELSE s2])

SpecShared == InitShared /\ [][Next]_vars

\* One caller, one file of the class corpus.
InitClasses ==
  \E source \in ClassSources : Setup(<<PathM>>, [q \in {PathM} |-> source])

SpecClasses == InitClasses /\ [][Next]_vars

\* ------------------------------------------------------------- claims
\* The callers whose run has returned from extract_relationships.
Finished == {c \in Callers : pc[c] = "done"}

QualifiedNames(c) == {entities[c][i].qualified_name : i \in 1..Len(entities[c])}

RelsOfType(c, rel_type) ==
  {i \in 1..Len(relationships[c]) : relationships[c][i].rel_type = rel_type}

RECURSIVE Located(_, _)
RECURSIVE LocatedAll(_, _, _)
\* Every node of the tree under node with its ancestors, root first, each
\* ancestor with the field of it the path goes down through.
Located(node, ancestors) ==
  <<[node |-> node, ancestors |-> ancestors]>>
    \o LocatedAll(node.f1, node, Append(ancestors, [node |-> node, field |-> "f1"]))
    \o LocatedAll(node.f2, node, Append(ancestors, [node |-> node, field |-> "f2"]))
    \o LocatedAll(node.f3, node, Append(ancestors, [node |-> node, field |-> "f3"]))
LocatedAll(nodes, parent, ancestors) ==
  IF nodes = <<>> THEN <<>>
  ELSE Located(Head(nodes), ancestors) \o LocatedAll(Tail(nodes), parent, ancestors)

\* C1: in a finished run every relationship's source_id is the qualified
\* name of an entity of the same run, whatever the relationship's type and
\* whatever the nesting of the function or class it comes from.
C1_SourcesAreEntities ==
  \A c \in Finished : \A i \in 1..Len(relationships[c]) :
    relationships[c][i].source_id \in QualifiedNames(c)

\* C2: in a finished run every entity but the File has exactly one CONTAINS
\* relationship to its qualified name, and every CONTAINS relationship goes
\* out from the File's qualified name.
C2_ExactlyOneContains ==
  \A c \in Finished :
    /\ \A i \in 1..Len(entities[c]) :
         entities[c][i].node_type # "File" =>
           Cardinality({j \in RelsOfType(c, "CONTAINS") :
                          relationships[c][j].target_id
                            = entities[c][i].qualified_name}) = 1
    /\ \A j \in RelsOfType(c, "CONTAINS") :
         relationships[c][j].source_id = paths[c]

\* C3: no two entities of one extraction share a qualified name.
C3_QualifiedNamesUnique ==
  \A c \in Callers : \A i, j \in 1..Len(entities[c]) :
    i # j => entities[c][i].qualified_name # entities[c][j].qualified_name

\* C6: a finished run has exactly one File entity, whose qualified_name and
\* file_path are the path as the caller passed it, and that path is the
\* source_id of every IMPORTS and every CONTAINS relationship.
C6_FileIdentity ==
  \A c \in Callers :
    /\ pc[c] \in {"extracted", "done"} =>
         /\ Cardinality({i \in 1..Len(entities[c]) :
                           entities[c][i].node_type = "File"}) = 1
         /\ \A i \in 1..Len(entities[c]) :
              entities[c][i].node_type = "File" =>
                /\ entities[c][i].qualified_name = paths[c]
                /\ entities[c][i].file_path = paths[c]
    /\ pc[c] = "done" =>
         \A j \in RelsOfType(c, "IMPORTS") \cup RelsOfType(c, "CONTAINS") :
           relationships[c][j].source_id = paths[c]

\* C6 witness: a run on the path "./n.py", which a normalisation would
\* change, finished with IMPORTS and CONTAINS relationships.
C6_Witness ==
  \E c \in Finished :
    /\ paths[c] = PathN
    /\ RelsOfType(c, "IMPORTS") # {}
    /\ RelsOfType(c, "CONTAINS") # {}

\* C4: a second (third, ...) run on the same unchanged file, on the same
\* instance or on a new one, returns the entity list and the relationship
\* list the run before returned.
C4_Idempotent ==
  \A c \in Callers :
    /\ (run[c] > 1 /\ pc[c] \in {"extracted", "done"}) =>
         entities[c] = prev[c].entities
    /\ (run[c] > 1 /\ pc[c] = "done") =>
         relationships[c] = prev[c].relationships

\* C4 witness: a second run finished with entities and relationships, on
\* the instance that still holds the File entity the run stored.
C4_Witness ==
  \E c \in Finished :
    /\ run[c] = 2
    /\ Len(entities[c]) > 1
    /\ relationships[c] # <<>>
    /\ self.file_entity = entities[c][1]

\* What a caller's calls return when they run alone on a new instance:
\* extract_entities, and extract_relationships on the instance as that left it.
Alone(c) ==
  ExtractEntities(NewPythonParser, ParseFile(fs, paths[c]), paths[c], fs[paths[c]])
AloneEntities(c) == Alone(c).entities
AloneRelationships(c) ==
  ExtractRelationships(Alone(c).self, ParseFile(fs, paths[c]), paths[c],
                       AloneEntities(c))

\* C5: however the calls of two callers with different files interleave on
\* one instance, each call returns what it returns alone on a new instance.
C5_NoSharedState ==
  \A c \in Callers :
    /\ pc[c] \in {"extracted", "done"} => entities[c] = AloneEntities(c)
    /\ pc[c] = "done" => relationships[c] = AloneRelationships(c)

\* C5 witness: caller 1 has run extract_entities and extract_relationships
\* after caller 2 ran extract_entities and before caller 2 runs
\* extract_relationships, the files being different.
C5_Witness ==
  /\ Callers = {1, 2}
  /\ paths[1] # paths[2]
  /\ fs[paths[1]] # fs[paths[2]]
  /\ pc[1] = "done" /\ relationships[1] # <<>>
  /\ pc[2] = "extracted" /\ run[2] = 1
  /\ self.file_entity.qualified_name = paths[1]

\* The definitions (classes and functions) an entity is extracted from, each
\* found by the line it starts on.
DefNodes(c) ==
  LET located == Located(tree[c], <<>>)
  IN {located[i].node : i \in {j \in 1..Len(located) :
        located[j].node.kind \in {"ClassDef", "FunctionDef", "AsyncFunctionDef"}}}

\* The nodes of the given kinds in the tree under node, node included.
NodesOfKind(node, kinds) ==
  LET located == Located(node, <<>>)
  IN {located[i].node : i \in {j \in 1..Len(located) : located[j].node.kind \in kinds}}

\* The if, while, for, except, with and assert statements under node.
DecisionStatements(node) ==
  NodesOfKind(node, {"If", "While", "For", "ExceptHandler", "With", "Assert"})

RECURSIVE SumOperands(_)
\* The operands of the boolean operators of a set, added up.
SumOperands(boolops) ==
  IF boolops = {} THEN 0
  ELSE LET x == CHOOSE y \in boolops : TRUE
       IN Len(x.f2) + SumOperands(boolops \ {x})

\* The complexity entities of caller c carry, by definition node.
ComplexityOf(c, node) ==
  {entities[c][i].complexity : i \in {j \in 1..Len(entities[c]) :
     /\ entities[c][j].node_type \in {"Class", "Function"}
     /\ entities[c][j].line_start = node.lineno}}

\* C7: a boolean-operator expression of k operands contributes k to the
\* complexity of the function or class it is in: the complexity is 1, plus
\* the decision statements, plus the operands of every boolean operator.
C7_BoolOpContributesOperands ==
  \A c \in Callers : pc[c] \in {"extracted", "done"} =>
    \A node \in DefNodes(c) : \A complexity \in ComplexityOf(c, node) :
      complexity = 1 + Cardinality(DecisionStatements(node))
                     + SumOperands(NodesOfKind(node, {"BoolOp"}))

\* C8: the complexity of a function or class with no boolean operator under
\* it is 1 plus the number of if, while, for, except, with and assert
\* statements under it, nested definitions included.
C8_ComplexityWithoutBoolOps ==
  \A c \in Callers : pc[c] \in {"extracted", "done"} =>
    \A node \in DefNodes(c) : \A complexity \in ComplexityOf(c, node) :
      NodesOfKind(node, {"BoolOp"}) = {} =>
        complexity = 1 + Cardinality(DecisionStatements(node))

\* C8 witness: a function of two sequential if statements and no boolean
\* operator, extracted with complexity 3.
C8_Witness ==
  \E c \in Callers :
    /\ pc[c] = "extracted"
    /\ \E node \in DefNodes(c) :
         /\ IsFunction(node)
         /\ Len(node.f2) = 2
         /\ node.f2[1].kind = "If" /\ node.f2[2].kind = "If"
         /\ NodesOfKind(node, {"BoolOp"}) = {}
         /\ node.f2[1].f3 = <<>> /\ node.f2[2].f3 = <<>>
         /\ ComplexityOf(c, node) = {3}

\* The ancestors that are function definitions, outermost first.
FunctionsAround(ancestors) == SelectSeq(ancestors, LAMBDA a : IsFunction(a.node))

\* The ancestors that are class definitions, outermost first.
ClassesAround(ancestors) == SelectSeq(ancestors, LAMBDA a : a.node.kind = "ClassDef")

\* The ancestors that are definitions of either kind, outermost first.
DefsAround(ancestors) ==
  SelectSeq(ancestors, LAMBDA a : IsFunction(a.node) \/ a.node.kind = "ClassDef")

\* Whether a node with these ancestors lies in the body of some function.
InFunctionBody(ancestors) ==
  \E i \in 1..Len(ancestors) : IsFunction(ancestors[i].node) /\ ancestors[i].field = "f2"

\* The functions defined inside the body of a function: those whose
\* innermost enclosing definition is a function.
NestedFunctions(c) ==
  LET located == Located(tree[c], <<>>)
  IN {x \in {located[i] : i \in 1..Len(located)} :
        /\ IsFunction(x.node)
        /\ DefsAround(x.ancestors) # <<>>
        /\ IsFunction(DefsAround(x.ancestors)[Len(DefsAround(x.ancestors))].node)}

\* The call expressions made inside a function: those whose innermost
\* enclosing function it is, and that lie in its body.
CallsInside(c, function) ==
  LET located == Located(tree[c], <<>>)
  IN {x \in {located[i] : i \in 1..Len(located)} :
        /\ x.node.kind = "Call"
        /\ FunctionsAround(x.ancestors) # <<>>
        /\ LET last == FunctionsAround(x.ancestors)[Len(FunctionsAround(x.ancestors))]
           IN last.node = function /\ last.field = "f2"}

\* The CALLS relationships recorded for a call expression, found by its line.
CallsRecordedFor(c, call) ==
  {j \in RelsOfType(c, "CALLS") : relationships[c][j].properties.line = call.lineno}

\* The Function entities extracted from a function definition.
FunctionEntitiesOf(c, function) ==
  {i \in 1..Len(entities[c]) :
     /\ entities[c][i].node_type = "Function"
     /\ entities[c][i].line_start = function.lineno}

NamesOf(around) == [i \in 1..Len(around) |-> around[i].node.name]

\* Whether what a call expression calls is an identifier or an attribute.
CallsAName(call) == call.f1[1].kind \in {"Name", "Attribute"}

\* C9 as claimed: a function g defined inside the body of a function gets a
\* Function entity with the qualified name P::g, and the calls made inside g
\* are recorded with the caller P::f.g, the names of the enclosing functions
\* joined by '.'.
C9_NestedFunctionEntityClaimed ==
  \A c \in Finished : \A g \in NestedFunctions(c) :
    /\ \E i \in FunctionEntitiesOf(c, g.node) :
         entities[c][i].qualified_name = paths[c] \o ColonColon \o g.node.name
    /\ \A call \in CallsInside(c, g.node) : \A j \in CallsRecordedFor(c, call.node) :
         relationships[c][j].source_id
           = paths[c] \o ColonColon \o Join(Dot, NamesOf(FunctionsAround(call.ancestors)))

\* C9 as amended: a function g defined inside the body of a function gets no
\* Function entity at all, and every call made inside g of an identifier or
\* an attribute is recorded once, its caller being P::, the name of the
\* innermost enclosing class and '.' when there is one, and the names of all
\* the enclosing functions joined by '.' (P::f.g for g in a module-level f).
C9_NestedFunctionNotEmitted ==
  \A c \in Finished : \A g \in NestedFunctions(c) :
    /\ FunctionEntitiesOf(c, g.node) = {}
    /\ \A call \in CallsInside(c, g.node) :
         /\ CallsAName(call.node) => Cardinality(CallsRecordedFor(c, call.node)) = 1
         /\ \A j \in CallsRecordedFor(c, call.node) :
              relationships[c][j].source_id
                = paths[c] \o ColonColon
                    \o (IF ClassesAround(call.ancestors) = <<>> THEN <<>>
                        ELSE ClassesAround(call.ancestors)
                               [Len(ClassesAround(call.ancestors))].node.name \o Dot)
                    \o Join(Dot, NamesOf(FunctionsAround(call.ancestors)))

\* C9 witness: a finished run over a module-level f with g defined in its
\* body, a call inside g recorded with the caller P::f.g.
C9_Witness ==
  \E c \in Finished : \E g \in NestedFunctions(c) :
    /\ Len(g.ancestors) = 2
    /\ g.ancestors[2].node.name = NameF
    /\ g.node.name = NameG
    /\ \E call \in CallsInside(c, g.node) : \E j \in CallsRecordedFor(c, call.node) :
         relationships[c][j].source_id
           = paths[c] \o ColonColon \o NameF \o Dot \o NameG

\* C10: no CALLS relationship is recorded for a call expression outside
\* every function body (at module level, in a class body, in the decorators
\* or the default arguments of a function at module or class level), and
\* exactly one for every call of an identifier or an attribute inside a
\* function body.
C10_OnlyCallsInFunctionBodies ==
  \A c \in Finished :
    LET located == Located(tree[c], <<>>)
    IN \A i \in 1..Len(located) :
         located[i].node.kind = "Call" =>
           IF ~InFunctionBody(located[i].ancestors)
           THEN CallsRecordedFor(c, located[i].node) = {}
           ELSE CallsAName(located[i].node) =>
                  Cardinality(CallsRecordedFor(c, located[i].node)) = 1

\* Whether the resolution of callee stops at this entity: its simple name is
\* the callee text, or its qualified name ends with "::" and the callee text.
MatchesCallee(entity, callee) ==
  \/ entity.name = callee
  \/ EndsWith(entity.qualified_name, ColonColon \o callee)

\* Whether an expression is an identifier or a chain of attributes of one.
RECURSIVE IsDottedName(_)
IsDottedName(expr) ==
  \/ expr.kind = "Name"
  \/ expr.kind = "Attribute" /\ IsDottedName(expr.f1[1])

\* The source text of an identifier or a chain of attributes of one.
RECURSIVE DottedText(_)
DottedText(expr) ==
  IF expr.kind = "Name" THEN expr.name
  ELSE DottedText(expr.f1[1]) \o Dot \o expr.name

\* The call expressions of caller c's tree that start on a line.
CallNodesAt(c, line) ==
  {node \in NodesOfKind(tree[c], {"Call"}) : node.lineno = line}

\* C11: the target of every CALLS relationship is the qualified name of the
\* first entity, in the order extract_entities returned them, whose simple
\* name is the callee text or whose qualified name ends with "::" and the
\* callee text, and the callee text itself when no entity matches; call_name
\* is the callee text, which for a call of a dotted name is that name.
C11_FirstMatchingEntity ==
  \A c \in Finished : \A j \in RelsOfType(c, "CALLS") :
    LET rel == relationships[c][j]
        callee == rel.properties.call_name
        hits == {i \in 1..Len(entities[c]) : MatchesCallee(entities[c][i], callee)}
    IN /\ \A node \in CallNodesAt(c, rel.properties.line) :
            IsDottedName(node.f1[1]) => callee = DottedText(node.f1[1])
       /\ IF hits = {} THEN rel.target_id = callee
          ELSE rel.target_id
                 = entities[c][CHOOSE i \in hits : \A k \in hits : i <= k].qualified_name

\* C11 witness: a finished run with a call of f where two entities of
\* different qualified names match f, and the first of them is the target.
C11_Witness ==
  \E c \in Finished : \E j \in RelsOfType(c, "CALLS") :
    LET rel == relationships[c][j]
        hits == {i \in 1..Len(entities[c]) :
                   MatchesCallee(entities[c][i], rel.properties.call_name)}
    IN /\ \E i, k \in hits :
            /\ i < k
            /\ entities[c][i].qualified_name # entities[c][k].qualified_name
            /\ \A h \in hits : i <= h
            /\ rel.target_id = entities[c][i].qualified_name

\* The text of a chain of attributes in source order: the attrs from the
\* innermost to the outermost, after the identifier at the root when the
\* chain has one.
RECURSIVE ChainText(_)
ChainText(expr) ==
  IF expr.kind = "Name" THEN expr.name
  ELSE IF expr.f1[1].kind \in {"Name", "Attribute"}
  THEN ChainText(expr.f1[1]) \o Dot \o expr.name
  ELSE expr.name

\* The name a base-class expression reduces to, None when it has none.
RECURSIVE ReducedName(_)
ReducedName(expr) ==
  IF expr.kind \in {"Name", "Attribute"} THEN ChainText(expr)
  ELSE IF expr.kind = "Subscript" THEN ReducedName(expr.f1[1])
  ELSE None

\* The names of the classes defined anywhere in caller c's file.
ClassNames(c) == {node.name : node \in NodesOfKind(tree[c], {"ClassDef"})}

\* The INHERITS relationships of a class, found by the line it starts on.
InheritsOf(c, class) ==
  {j \in RelsOfType(c, "INHERITS") : relationships[c][j].properties.line = class.lineno}

\* C12: for every class C of file P and every name b that base-class
\* expressions of C reduce to, C has one INHERITS relationship per such
\* expression, from P::C to P::b when a class named b is defined in the file
\* and to b otherwise; C has no other INHERITS relationship, so an expression
\* that reduces to no name gives none.
C12_InheritsPerNamedBase ==
  \A c \in Finished : \A class \in NodesOfKind(tree[c], {"ClassDef"}) :
    LET named == {i \in 1..Len(class.f1) : ReducedName(class.f1[i]) # None}
    IN /\ Cardinality(InheritsOf(c, class)) = Cardinality(named)
       /\ \A j \in InheritsOf(c, class) :
            /\ relationships[c][j].source_id = paths[c] \o ColonColon \o class.name
            /\ \E i \in named :
                 relationships[c][j].properties.base_class = ReducedName(class.f1[i])
       /\ \A i \in named :
            LET b == ReducedName(class.f1[i])
                same == {k \in named : ReducedName(class.f1[k]) = b}
            IN Cardinality({j \in InheritsOf(c, class) :
                 /\ relationships[c][j].properties.base_class = b
                 /\ relationships[c][j].target_id
                      = (IF b \in ClassNames(c) THEN paths[c] \o ColonColon \o b ELSE b)})
                 = Cardinality(same)

\* C12 witness: a finished run over class B(A, a.b.A, A[a], f(), ...) next to
\* a class A: INHERITS to P::A and to the raw a.b.A, fewer relationships than
\* base expressions.
C12_Witness ==
  \E c \in Finished : \E class \in NodesOfKind(tree[c], {"ClassDef"}) :
    /\ NameA \in ClassNames(c)
    /\ Cardinality(InheritsOf(c, class)) < Len(class.f1)
    /\ \E j \in InheritsOf(c, class) :
         relationships[c][j].target_id = paths[c] \o ColonColon \o NameA
    /\ \E j \in InheritsOf(c, class) :
         relationships[c][j].target_id = <<"a", ".", "b", ".", "A">>

\* The names of the methods defined directly in the body of a class.
MethodNames(class) ==
  {class.f2[i].name : i \in {k \in 1..Len(class.f2) : IsFunction(class.f2[k])}}

\* The names the base-class expressions of a class reduce to.
BaseNames(class) == {ReducedName(class.f1[i]) : i \in 1..Len(class.f1)} \ {None}

\* Whether a method name begins with two underscores and ends with two.
DunderName(m) ==
  /\ Len(m) >= 2
  /\ m[1] = "_" /\ m[2] = "_"
  /\ m[Len(m) - 1] = "_" /\ m[Len(m)] = "_"

\* The overrides of caller c's file as pairs <<P::Child.m, P::Base.m>>:
\* Child and Base classes defined in the file, Base named by a base-class
\* expression of Child, m a method of both that is no dunder.
OverridesDefined(c) ==
  LET classes == NodesOfKind(tree[c], {"ClassDef"})
      Pairs(child, base) ==
        {<<paths[c] \o ColonColon \o child.name \o Dot \o m,
           paths[c] \o ColonColon \o base.name \o Dot \o m>> :
           m \in {n \in MethodNames(child) \cap MethodNames(base) : ~DunderName(n)}}
  IN UNION {UNION {Pairs(child, base) :
                     base \in {b \in classes : b.name \in BaseNames(child)}} :
            child \in classes}

\* The OVERRIDES relationships of caller c as pairs <<source_id, target_id>>.
OverridesEmitted(c) ==
  {<<relationships[c][j].source_id, relationships[c][j].target_id>> :
     j \in RelsOfType(c, "OVERRIDES")}

\* C13: the OVERRIDES relationships of a finished run are exactly
\* P::Child.m -> P::Base.m for the classes Child and Base defined in the
\* file, Base the reduced name of a base-class expression of Child, and m a
\* method defined directly in both bodies that is not a dunder; none is for a
\* dunder method.
C13_OverridesExactly ==
  \A c \in Finished :
    /\ OverridesEmitted(c) = OverridesDefined(c)
    /\ \A j \in RelsOfType(c, "OVERRIDES") :
         ~DunderName(relationships[c][j].properties.method_name)

\* The statements of the given kind directly in the body of caller c's module.
ModuleLevel(c, kind) ==
  {tree[c].f2[i] : i \in {k \in 1..Len(tree[c].f2) : tree[c].f2[k].kind = kind}}

\* The Module entities of caller c with a qualified name.
ModuleEntitiesNamed(c, qualified_name) ==
  {i \in 1..Len(entities[c]) :
     /\ entities[c][i].node_type = "Module"
     /\ entities[c][i].qualified_name = qualified_name}

\* The dotted parent of a module name: what precedes its last dot, None for
\* a name without a dot.
DottedParent(module_name) ==
  LET dots == {i \in 1..Len(module_name) : module_name[i] = "."}
  IN IF dots = {} THEN None
     ELSE SubSeq(module_name, 1, (CHOOSE i \in dots : \A k \in dots : k <= i) - 1)

\* The IMPORTS relationships of an import statement, found by its line.
ImportsAt(c, statement) ==
  {j \in RelsOfType(c, "IMPORTS") : relationships[c][j].properties.line = statement.lineno}

\* C14: for every import X (as A) at module level there is exactly one
\* Module entity with the qualified name X, however often X is imported; it
\* is external and its package is the dotted parent of X, none without a dot;
\* and the statement has one IMPORTS relationship per alias, from the File to
\* X with the alias A.
C14_PlainImport ==
  \A c \in Finished : \A statement \in ModuleLevel(c, "Import") :
    /\ Cardinality(ImportsAt(c, statement)) = Len(statement.f1)
    /\ \A a \in 1..Len(statement.f1) :
         LET X == statement.f1[a].name
             same == {k \in 1..Len(statement.f1) : statement.f1[k] = statement.f1[a]}
         IN /\ Cardinality(ModuleEntitiesNamed(c, X)) = 1
            /\ \A i \in ModuleEntitiesNamed(c, X) :
                 /\ entities[c][i].is_external
                 /\ entities[c][i].package = DottedParent(X)
            /\ Cardinality({j \in ImportsAt(c, statement) :
                  /\ relationships[c][j].source_id = paths[c]
                  /\ relationships[c][j].target_id = X
                  /\ relationships[c][j].properties.alias = statement.f1[a].asname})
                 = Cardinality(same)

\* C14 witness: a finished run over a file that imports a.b and f twice:
\* four IMPORTS relationships, a Module entity a.b of package a and a Module
\* entity f of no package.
C14_Witness ==
  \E c \in Finished :
    /\ Cardinality(ModuleLevel(c, "Import")) = 2
    /\ Cardinality(RelsOfType(c, "IMPORTS")) = 4
    /\ \E i \in ModuleEntitiesNamed(c, <<"a", ".", "b">>) :
         entities[c][i].package = <<"a">>
    /\ \E i \in ModuleEntitiesNamed(c, NameF) : entities[c][i].package = None

\* The module an import-from statement names: the empty text for
\* "from . import ...".
ModuleOfFrom(statement) == IF statement.name = None THEN <<>> ELSE statement.name

\* The module names the module-level imports of caller c's file give a
\* Module entity: X of import X, M of from M import when M is not empty.
ImportedModules(c) ==
  UNION {{statement.f1[a].name : a \in 1..Len(statement.f1)} :
           statement \in ModuleLevel(c, "Import")}
    \cup ({ModuleOfFrom(statement) : statement \in ModuleLevel(c, "ImportFrom")} \ {<<>>})

\* C15: every from M import N (as A) at module level and relative level L
\* has one IMPORTS relationship per imported name, from the File, to M.N when
\* M is not empty and to N when it is, with alias A, from_module M,
\* imported_name N, relative_level L and the statement's line; a non-empty M
\* has a Module entity, an empty M gives none (neither for the empty name nor
\* for N, unless N is imported as a module elsewhere in the file).
C15_FromImport ==
  \A c \in Finished : \A statement \in ModuleLevel(c, "ImportFrom") :
    LET M == ModuleOfFrom(statement)
    IN /\ Cardinality(ImportsAt(c, statement)) = Len(statement.f1)
       /\ \A a \in 1..Len(statement.f1) :
            LET N == statement.f1[a].name
                same == {k \in 1..Len(statement.f1) : statement.f1[k] = statement.f1[a]}
            IN /\ Cardinality({j \in ImportsAt(c, statement) :
                     /\ relationships[c][j].source_id = paths[c]
                     /\ relationships[c][j].target_id
                          = (IF M # <<>> THEN M \o Dot \o N ELSE N)
                     /\ relationships[c][j].properties
                          = [alias |-> statement.f1[a].asname,
                             from_module |-> M,
                             imported_name |-> N,
                             relative_level |-> statement.level,
                             line |-> statement.lineno]})
                    = Cardinality(same)
               /\ (M = <<>> /\ N \notin ImportedModules(c)) =>
                    ModuleEntitiesNamed(c, N) = {}
       /\ IF M # <<>> THEN Cardinality(ModuleEntitiesNamed(c, M)) = 1
          ELSE ModuleEntitiesNamed(c, <<>>) = {}

\* C15 witness: a finished run over from . import f as g and
\* from .a.b import f as g, g: IMPORTS to f and to a.b.f at relative level 1,
\* a Module entity a.b and none for f.
C15_Witness ==
  \E c \in Finished :
    /\ Cardinality(ModuleLevel(c, "ImportFrom")) = 2
    /\ \E j \in RelsOfType(c, "IMPORTS") :
         /\ relationships[c][j].target_id = NameF
         /\ relationships[c][j].properties.relative_level = 1
         /\ relationships[c][j].properties.from_module = <<>>
    /\ \E j \in RelsOfType(c, "IMPORTS") :
         relationships[c][j].target_id = <<"a", ".", "b", ".", "f">>
    /\ ModuleEntitiesNamed(c, <<"a", ".", "b">>) # {}
    /\ ModuleEntitiesNamed(c, NameF) = {}

\* The import statements of caller c's tree that are not directly in the
\* module body.
NestedImports(c) ==
  LET located == Located(tree[c], <<>>)
  IN {x \in {located[i] : i \in 1..Len(located)} :
        /\ x.node.kind \in {"Import", "ImportFrom"}
        /\ Len(x.ancestors) > 1}

\* The qualified names of the Module entities of caller c.
ModulesOfEntities(c) ==
  {entities[c][i].qualified_name :
     i \in {k \in 1..Len(entities[c]) : entities[c][k].node_type = "Module"}}

\* The modules the IMPORTS relationships of caller c import from: the target
\* of an import, the from_module of a from-import when it is not empty.
ModulesOfRelationships(c) ==
  {IF "from_module" \in DOMAIN relationships[c][j].properties
   THEN relationships[c][j].properties.from_module
   ELSE relationships[c][j].target_id : j \in RelsOfType(c, "IMPORTS")} \ {<<>>}

\* C16: only the import statements directly in the module body count: the
\* Module entities are those of the module-level imports, every IMPORTS
\* relationship is on the line of a module-level import statement, an import
\* statement nested in a function, a class or another compound statement has
\* no IMPORTS relationship, and the Module entities are the modules the
\* IMPORTS relationships import from.
C16_OnlyModuleLevelImports ==
  \A c \in Finished :
    /\ ModulesOfEntities(c) = ImportedModules(c)
    /\ \A j \in RelsOfType(c, "IMPORTS") :
         \E statement \in ModuleLevel(c, "Import") \cup ModuleLevel(c, "ImportFrom") :
           relationships[c][j].properties.line = statement.lineno
    /\ \A x \in NestedImports(c) : ImportsAt(c, x.node) = {}
    /\ ModulesOfEntities(c) = ModulesOfRelationships(c)

\* C16 witness: a finished run over a file with an import at module level
\* and both import c and from c import f nested in a function: IMPORTS
\* relationships and a Module entity, but none for c.
C16_Witness ==
  \E c \in Finished :
    /\ ModulesOfEntities(c) # {}
    /\ RelsOfType(c, "IMPORTS") # {}
    /\ NameC \notin ModulesOfEntities(c)
    /\ \E x, y \in NestedImports(c) :
         /\ x.node.kind = "Import" /\ y.node.kind = "ImportFrom"
         /\ IsFunction(x.ancestors[Len(x.ancestors)].node)
         /\ IsFunction(y.ancestors[Len(y.ancestors)].node)

\* C17: every entity extract_entities returns, the File entity included, has
\* a valid 1-based range of lines, 1 <= line_start <= line_end, an empty
\* file's entities too.
C17_ValidLineRange ==
  \A c \in Callers : \A i \in 1..Len(entities[c]) :
    /\ 1 <= entities[c][i].line_start
    /\ entities[c][i].line_start <= entities[c][i].line_end

\* Whether the file at a path is there and holds a source ast.parse rejects.
InvalidFile(p) == fs[p] # NoFile /\ ~IsValidSource(fs[p])

\* C18: for a file whose source is not valid, parse raises and returns no
\* tree: the caller never gets past parse, it holds no tree, no entity and no
\* relationship of the file, and the instance holds no File entity and no
\* entity_map key of the file.
C18_InvalidSourceYieldsNothing ==
  \A c \in Callers : InvalidFile(paths[c]) =>
    /\ pc[c] \in {"idle", "raised"}
    /\ tree[c] = NoTree
    /\ entities[c] = <<>>
    /\ relationships[c] = <<>>
    /\ self.file_entity # NoEntity => self.file_entity.file_path # paths[c]
    /\ \A i \in 1..Len(self.entity_map) : ~StartsWith(self.entity_map[i].key, paths[c])

\* C18 witness: parse has raised for a file with a valid function definition
\* before the line ast.parse rejects, on an instance that holds the File
\* entity of another file.
C18_Witness ==
  \E c \in Callers :
    /\ pc[c] = "raised"
    /\ InvalidFile(paths[c])
    /\ Len(fs[paths[c]].f2) > 1
    /\ self.file_entity # NoEntity

\* C19: once parse has returned a tree, extract_entities and
\* extract_relationships return too, whatever the environment did to the file
\* since: a caller whose call raised has no tree, the call was parse.
C19_ExtractionNeverRaises ==
  \A c \in Callers : pc[c] = "raised" => tree[c] = NoTree

\* Whether text occurs in s.
HasSubSeq(s, text) ==
  \E i \in 1..(Len(s) - Len(text) + 1) : SubSeq(s, i, i + Len(text) - 1) = text

\* The callers whose run before was on another file and ended in parse or
\* extract_entities raising, and whose file is as parse read it.
AfterFailure ==
  {c \in Callers :
     /\ prev[c].pc = "raised"
     /\ prev[c].path # paths[c]
     /\ tree[c] # NoTree
     /\ ParseFile(fs, paths[c]) = tree[c]}

\* C20: after parse or extract_entities raised for a file A, the run on a
\* file B on the same instance returns the entities and relationships it
\* returns on a new instance, and none of them names A.
C20_FailureLeavesNoTrace ==
  \A c \in AfterFailure :
    /\ pc[c] \in {"extracted", "done"} =>
         /\ entities[c] = AloneEntities(c)
         /\ \A i \in 1..Len(entities[c]) :
              /\ entities[c][i].file_path # prev[c].path
              /\ ~HasSubSeq(entities[c][i].qualified_name, prev[c].path)
    /\ pc[c] = "done" =>
         /\ relationships[c] = AloneRelationships(c)
         /\ \A j \in 1..Len(relationships[c]) :
              /\ ~HasSubSeq(relationships[c][j].source_id, prev[c].path)
              /\ ~HasSubSeq(relationships[c][j].target_id, prev[c].path)

\* C20 witness: extract_entities raised for the file of the run before,
\* which parse had read, and the run on the other file has returned entities
\* and relationships, the File entity the instance now holds among them.
C20_Witness ==
  \E c \in AfterFailure :
    /\ prev[c].parsed
    /\ pc[c] = "done"
    /\ Len(entities[c]) > 1
    /\ relationships[c] # <<>>
    /\ self.file_entity = entities[c][1]

\* ------------------------------------------------------ configuration
\* The values configuration data holds, each with its Python type. The keys
\* of a dict are plain strings; a str is a sequence of characters.
Str(chars) == [type |-> "str", v |-> chars]
List(items) == [type |-> "list", v |-> items]
Dict(items) == [type |-> "dict", v |-> items]
Integer(n) == [type |-> "int", v |-> n]
Float(text) == [type |-> "float", v |-> text]
Bool(b) == [type |-> "bool", v |-> b]
NoneValue == [type |-> "NoneType", v |-> "None"]

Item(key, value) == [key |-> key, value |-> value]

\* What a call outside the parser has come to.
Pending == [kind |-> "pending", value |-> NoneValue]
Returned(value) == [kind |-> "returned", value |-> value]
Raised(exception) == [kind |-> "raised", value |-> Str(exception)]

\* The character classes of the pattern of _expand_env_vars.
Letters ==
  {"A", "B", "C", "D", "E", "F", "G", "H", "I", "J", "K", "L", "M", "N", "O", "P",
   "Q", "R", "S", "T", "U", "V", "W", "X", "Y", "Z", "a", "b", "c", "d", "e", "f",
   "g", "h", "i", "j", "k", "l", "m", "n", "o", "p", "q", "r", "s", "t", "u", "v",
   "w", "x", "y", "z"}
Digits == {"0", "1", "2", "3", "4", "5", "6", "7", "8", "9"}

\* Where the match of \$\{([^}]+)\} that starts at i ends, 0 when there is
\* none: the first "}" after "${", with a character between them.
BraceEnd(s, i) ==
  IF /\ i + 1 <= Len(s)
     /\ s[i] = "$"
     /\ s[i + 1] = "{"
     /\ \E j \in (i + 2)..Len(s) : s[j] = "}"
  THEN LET j == CHOOSE k \in (i + 2)..Len(s) :
                  /\ s[k] = "}"
                  /\ \A l \in (i + 2)..(k - 1) : s[l] # "}"
       IN IF j > i + 2 THEN j ELSE 0
  ELSE 0

\* Where the match of \$([A-Za-z_][A-Za-z0-9_]*) that starts at i ends, 0
\* when there is none: the star takes every character it can.
NameEnd(s, i) ==
  IF /\ i + 1 <= Len(s)
     /\ s[i] = "$"
     /\ s[i + 1] \in Letters \cup {"_"}
  THEN CHOOSE k \in (i + 1)..Len(s) :
         /\ \A l \in (i + 2)..k : s[l] \in Letters \cup Digits \cup {"_"}
         /\ (k = Len(s) \/ s[k + 1] \notin Letters \cup Digits \cup {"_"})
  ELSE 0

\* The pattern that knows ${VAR} only.
MatchEndBraced(s, i) == BraceEnd(s, i)

\* The pattern at i: its first alternative, then its second.
MatchEnd(s, i) == IF BraceEnd(s, i) # 0 THEN BraceEnd(s, i) ELSE NameEnd(s, i)

\* os.environ.get(name, default)
EnvironGet(env, name, default) ==
  IF DictHas(env, name) THEN DictGet(env, name) ELSE default

\* replace_var for the match of s from i to end.
ReplaceVar(s, i, end, env) ==
  LET var_name == IF BraceEnd(s, i) # 0 THEN SubSeq(s, i + 2, end - 1)
                  ELSE SubSeq(s, i + 1, end)
  IN EnvironGet(env, var_name, SubSeq(s, i, end))

RECURSIVE SubFrom(_, _, _)
\* pattern.sub(replace_var, s) from position i on: the matches are taken
\* from left to right and do not overlap; what they replace is not scanned
\* again.
SubFrom(s, i, env) ==
  IF i > Len(s) THEN <<>>
  ELSE IF MatchEnd(s, i) # 0
  THEN ReplaceVar(s, i, MatchEnd(s, i), env) \o SubFrom(s, MatchEnd(s, i) + 1, env)
  ELSE <<s[i]>> \o SubFrom(s, i + 1, env)

RECURSIVE ExpandEnvVars(_, _)
\* _expand_env_vars
ExpandEnvVars(data, env) ==
  IF data.type = "dict"
  THEN Dict([i \in 1..Len(data.v) |->
               Item(data.v[i].key, ExpandEnvVars(data.v[i].value, env))])
  ELSE IF data.type = "list"
  THEN List([i \in 1..Len(data.v) |-> ExpandEnvVars(data.v[i], env)])
  ELSE IF data.type = "str"
  THEN Str(SubFrom(data.v, 1, env))
  ELSE data

\* The defaults of the four dataclasses.
Neo4jConfig ==
  [uri |-> Str(<<"b", "o", "l", "t", ":", "/", "/", "l", "o", "c", "a", "l", "h",
                 "o", "s", "t", ":", "7", "6", "8", "7">>),
   user |-> Str(<<"n", "e", "o", "4", "j">>),
   password |-> NoneValue]

IngestionConfig ==
  [patterns |-> List(<<Str(<<"*", "*", "/", "*", ".", "p", "y">>)>>),
   follow_symlinks |-> Bool(FALSE),
   max_file_size_mb |-> Float("10.0"),
   batch_size |-> Integer(100)]

AnalysisConfig ==
  [min_modularity |-> Float("0.3"), max_coupling |-> Float("5.0")]

LoggingConfig ==
  [level |-> Str(<<"I", "N", "F", "O">>),
   format |-> Str(<<"h", "u", "m", "a", "n">>),
   file |-> NoneValue]

\* FalkorConfig()
FalkorConfig ==
  [neo4j |-> Neo4jConfig, ingestion |-> IngestionConfig,
   analysis |-> AnalysisConfig, logging |-> LoggingConfig]

Sections == <<"neo4j", "ingestion", "analysis", "logging">>

\* The fields of each dataclass in the order of to_dict.
Fields ==
  [neo4j |-> <<"uri", "user", "password">>,
   ingestion |-> <<"patterns", "follow_symlinks", "max_file_size_mb", "batch_size">>,
   analysis |-> <<"min_modularity", "max_coupling">>,
   logging |-> <<"level", "format", "file">>]

TypeError == <<"T", "y", "p", "e", "E", "r", "r", "o", "r">>
AttributeError ==
  <<"A", "t", "t", "r", "i", "b", "u", "t", "e", "E", "r", "r", "o", "r">>

\* data.get(section, {})
SectionOf(data, section) ==
  IF DictHas(data.v, section) THEN DictGet(data.v, section) ELSE Dict(<<>>)

\* Whether cls(**kwargs) takes kwargs: a mapping that names fields only.
TakesKwargs(defaults, kwargs) ==
  /\ kwargs.type = "dict"
  /\ \A i \in 1..Len(kwargs.v) : kwargs.v[i].key \in DOMAIN defaults

\* cls(**kwargs) of a dataclass: a field not named keeps its default.
Construct(defaults, kwargs) ==
  [f \in DOMAIN defaults |->
     IF DictHas(kwargs.v, f) THEN DictGet(kwargs.v, f) ELSE defaults[f]]

\* FalkorConfig.from_dict building from the data as it is given.
FromDictUnexpanded(data, env) ==
  IF data.type # "dict" THEN Raised(AttributeError)
  ELSE IF \E i \in 1..Len(Sections) :
            ~TakesKwargs(FalkorConfig[Sections[i]], SectionOf(data, Sections[i]))
  THEN Raised(TypeError)
  ELSE Returned([section \in DOMAIN FalkorConfig |->
                   Construct(FalkorConfig[section], SectionOf(data, section))])

\* FalkorConfig.from_dict
FromDict(data, env) == FromDictUnexpanded(ExpandEnvVars(data, env), env)

\* FalkorConfig.to_dict
ToDict(config) ==
  Dict([i \in 1..Len(Sections) |->
          Item(Sections[i],
               Dict([j \in 1..Len(Fields[Sections[i]]) |->
                       Item(Fields[Sections[i]][j],
                            config[Sections[i]][Fields[Sections[i]][j]])]))])

RECURSIVE DeepMerge(_, _)
\* The loop of merge over other_dict.items().
DeepMerge(merged_dict, items) ==
  IF items = <<>> THEN merged_dict
  ELSE LET section == Head(items).key
           values == Head(items).value
       IN DeepMerge(
            IF ~DictHas(merged_dict, section)
            THEN DictSet(merged_dict, section, values)
            ELSE DictSet(merged_dict, section,
                         Dict(DictFrom(DictGet(merged_dict, section).v, values.v))),
            Tail(items))

\* FalkorConfig.merge
Merge(config, other, env) ==
  FromDict(Dict(DeepMerge(ToDict(config).v, ToDict(other).v)), env)

\* ----------------------------------------------- configuration corpus
\* The longest text of the expansion corpus.
MaxChars == 5

\* "$", the braces, a letter and a digit.
Alphabet == {"$", "{", "}", "X", "1"}
Texts == SeqsOf(Alphabet, 0, MaxChars)

VarX == <<"X">>
VarX1 == <<"X", "1">>

\* bolt://${X}:$X1
TextUri == <<"b", "o", "l", "t", ":", "/", "/", "$", "{", "X", "}", ":", "$", "X", "1">>
\* ${ X}-$_x$$X
TextOdd == <<"$", "{", " ", "X", "}", "-", "$", "_", "x", "$", "$", "X">>
TextJs == <<"*", ".", "j", "s">>
PickedTexts == {TextUri, TextOdd, TextJs, <<"$", "X">>}

\* os.environ: empty; X set; X set to nothing and X1 to a reference.
Environs ==
  {<<>>,
   <<Item(VarX, <<"v">>)>>,
   <<Item(VarX, <<>>), Item(VarX1, <<"$", "X">>)>>}

\* The data _expand_env_vars is called with.
ExpandData ==
  {Str(t) : t \in Texts}
    \cup {List(<<Str(t), Integer(7), NoneValue>>) : t \in PickedTexts}
    \cup {Dict(<<Item("neo4j", Dict(<<Item("password", Str(t))>>)),
                 Item("ingestion",
                      Dict(<<Item("patterns", List(<<Str(TextJs), Str(t)>>)),
                             Item("follow_symlinks", Bool(TRUE))>>))>>) :
            t \in PickedTexts}
    \cup {Bool(FALSE), Float("0.5"), List(<<>>), Dict(<<>>)}

\* The data from_dict is called with; the last names no field.
FromDictData ==
  {Dict(<<>>)}
    \cup {Dict(<<Item("neo4j", Dict(<<Item("password", Str(t))>>))>>) :
            t \in PickedTexts}
    \cup {Dict(<<Item("logging", Dict(<<Item("file", Str(t)), Item("level", Str(t))>>)),
                 Item("ingestion",
                      Dict(<<Item("patterns", List(<<Str(t), Str(TextJs)>>)),
                             Item("batch_size", Integer(5))>>))>>) :
            t \in PickedTexts}
    \cup {Dict(<<Item("neo4j", Dict(<<Item("pass", Str(t))>>))>>) : t \in PickedTexts}

\* The configs merge is called on and with.
ConfigOf(user, password, level, patterns) ==
  [FalkorConfig EXCEPT !.neo4j.user = user, !.neo4j.password = password,
                       !.logging.level = level, !.ingestion.patterns = patterns]

Configs ==
  {ConfigOf(user, password, level, patterns) :
     user \in {Neo4jConfig.user, Str(<<"a">>)},
     password \in {NoneValue, Str(<<"$", "X">>)},
     level \in {LoggingConfig.level, Str(<<"D", "E", "B", "U", "G">>)},
     patterns \in {IngestionConfig.patterns, List(<<Str(TextJs)>>)}}

ConfigCalls ==
  {[op |-> "_expand_env_vars", data |-> data] : data \in ExpandData}
    \cup {[op |-> "from_dict", data |-> data] : data \in FromDictData}
    \cup {[op |-> "merge", config |-> config, other |-> other] :
            config \in Configs, other \in Configs}

\* ------------------------------------------------ configuration state
parser == <<fs, self, paths, pc, tree, entities, relationships, run, prev>>

\* No parser runs: no caller, no file.
ParserIdle == ParserSetup(NewPythonParser, <<>>, <<>>)

\* One call of the configuration module, in one environment.
InitConfig ==
  /\ ParserIdle
  /\ client = NoClient
  /\ environ \in Environs
  /\ frame \in ConfigCalls
  /\ outcome = Pending

DoExpandEnvVars ==
  /\ frame.op = "_expand_env_vars"
  /\ outcome.kind = "pending"
  /\ outcome' = Returned(ExpandEnvVars(frame.data, environ))
  /\ UNCHANGED <<parser, environ, frame, client>>

DoFromDict ==
  /\ frame.op = "from_dict"
  /\ outcome.kind = "pending"
  /\ outcome' = FromDict(frame.data, environ)
  /\ UNCHANGED <<parser, environ, frame, client>>

DoMerge ==
  /\ frame.op = "merge"
  /\ outcome.kind = "pending"
  /\ outcome' = Merge(frame.config, frame.other, environ)
  /\ UNCHANGED <<parser, environ, frame, client>>

NextConfig ==
  \/ DoExpandEnvVars
  \/ DoFromDict
  \/ DoMerge

SpecConfig == InitConfig /\ [][NextConfig]_vars

\* C21: merge returns a config in which, field by field, the value is
\* other's where other's differs from the default, and self's elsewhere.
C21_MergePrefersNonDefault ==
  (frame.op = "merge" /\ outcome.kind = "returned") =>
    \A section \in DOMAIN FalkorConfig : \A f \in DOMAIN FalkorConfig[section] :
      outcome.value[section][f] =
        IF frame.other[section][f] # FalkorConfig[section][f]
        THEN frame.other[section][f]
        ELSE frame.config[section][f]

\* The characters a variable name written without braces is made of.
NameStart == Letters \cup {"_"}
NameChars == Letters \cup Digits \cup {"_"}

\* The references of text s, as pairs of their first and last position:
\* ${NAME} with a NAME of one character or more that holds no "}", and $NAME
\* with the longest NAME that starts with a letter or "_".
References(s) ==
  {r \in (1..Len(s)) \X (1..Len(s)) :
     /\ r[1] < r[2]
     /\ s[r[1]] = "$"
     /\ \/ /\ s[r[1] + 1] = "{"
           /\ s[r[2]] = "}"
           /\ r[2] > r[1] + 2
           /\ \A k \in (r[1] + 2)..(r[2] - 1) : s[k] # "}"
        \/ /\ s[r[1] + 1] \in NameStart
           /\ \A k \in (r[1] + 1)..r[2] : s[k] \in NameChars
           /\ (r[2] < Len(s) => s[r[2] + 1] \notin NameChars)}

\* The NAME of reference r of s.
ReferenceName(s, r) ==
  IF s[r[1] + 1] = "{" THEN SubSeq(s, r[1] + 2, r[2] - 1)
  ELSE SubSeq(s, r[1] + 1, r[2])

RECURSIVE Substituted(_, _)
\* Text s with its references replaced, the leftmost first, each by the
\* value of its variable where env defines it and by itself elsewhere.
Substituted(s, env) ==
  IF References(s) = {} THEN s
  ELSE LET r == CHOOSE x \in References(s) : \A y \in References(s) : x[1] <= y[1]
           name == ReferenceName(s, r)
       IN SubSeq(s, 1, r[1] - 1)
            \o (IF DictHas(env, name) THEN DictGet(env, name)
                ELSE SubSeq(s, r[1], r[2]))
            \o Substituted(SubSeq(s, r[2] + 1, Len(s)), env)

RECURSIVE Leaves(_, _)
\* The values data holds that are neither a dict nor a list with something
\* in it, each with the path of keys and indexes that leads to it.
Leaves(data, path) ==
  IF data.type = "dict" /\ data.v # <<>>
  THEN Flatten([i \in 1..Len(data.v) |->
                  Leaves(data.v[i].value,
                         Append(path, [key |-> data.v[i].key, index |-> 0]))])
  ELSE IF data.type = "list" /\ data.v # <<>>
  THEN Flatten([i \in 1..Len(data.v) |->
                  Leaves(data.v[i], Append(path, [key |-> "", index |-> i]))])
  ELSE <<[path |-> path, value |-> data]>>

\* Whether out is data with every str in it substituted and nothing else
\* changed.
IsExpansion(data, out, env) ==
  /\ Len(Leaves(out, <<>>)) = Len(Leaves(data, <<>>))
  /\ \A i \in 1..Len(Leaves(data, <<>>)) :
       LET from == Leaves(data, <<>>)[i]
           to == Leaves(out, <<>>)[i]
       IN /\ to.path = from.path
          /\ to.value.type = from.value.type
          /\ to.value.v = IF from.value.type = "str"
                          THEN Substituted(from.value.v, env)
                          ELSE from.value.v

\* C22: _expand_env_vars returns its data with every ${NAME} and $NAME in
\* every str, at any depth of dicts and lists, replaced by the value of NAME
\* where the environment defines NAME and left as written elsewhere, and
\* everything that is no str unchanged; the config from_dict builds holds,
\* field by field, the expansion of what the data gives for the field.
C22_ExpandsEveryReference ==
  /\ (frame.op = "_expand_env_vars" /\ outcome.kind = "returned") =>
       IsExpansion(frame.data, outcome.value, environ)
  /\ (frame.op = "from_dict" /\ outcome.kind = "returned") =>
       \A section \in DOMAIN FalkorConfig : \A f \in DOMAIN FalkorConfig[section] :
         IF DictHas(SectionOf(frame.data, section).v, f)
         THEN IsExpansion(DictGet(SectionOf(frame.data, section).v, f),
                          outcome.value[section][f], environ)
         ELSE outcome.value[section][f] = FalkorConfig[section][f]

\* C22 witness: _expand_env_vars has returned for a dict that holds, in a
\* list in a dict, a text with a reference to X, which is defined, and one to
\* X1, which is not.
C22_Witness ==
  /\ frame.op = "_expand_env_vars"
  /\ outcome.kind = "returned"
  /\ frame.data.type = "dict"
  /\ \E i \in 1..Len(Leaves(frame.data, <<>>)) :
       /\ Leaves(frame.data, <<>>)[i].value = Str(TextUri)
       /\ Len(Leaves(frame.data, <<>>)[i].path) = 3
  /\ DictHas(environ, VarX)
  /\ ~DictHas(environ, VarX1)
  /\ outcome.value # frame.data

\* ------------------------------------------------- find_config_file
\* A pathlib.Path is the sequence of its components below the root, the
\* root being the empty sequence; the file system gives the kind of each
\* entry that exists.
PathValue(path) == [type |-> "Path", v |-> path]

\* path.parent: the root is its own parent.
Parent(path) == IF path = <<>> THEN <<>> ELSE SubSeq(path, 1, Len(path) - 1)

\* path.exists()
Exists(files, path) == path \in DOMAIN files

\* path.is_file()
IsFile(files, path) == path \in DOMAIN files /\ files[path] = "file"

\* The test that takes whatever exists.
IsConfigEntry(files, path) == Exists(files, path)

\* path.exists() and path.is_file()
IsConfigFile(files, path) == Exists(files, path) /\ IsFile(files, path)

\* Path.home()
Home == <<"h">>

\* The most entries of the file system that bear a config file's name.
MaxEntries == 2

\* Path(start_dir).resolve(): the directories a search starts in.
StartDirs == {<<>>, <<"w">>, <<"w", "p">>, Home, <<"h", ".config">>}
ConfigNames == {".falkorrc", "falkor.toml"}
Slots == {Append(dir, name) : dir \in StartDirs, name \in ConfigNames}
FileSystems ==
  UNION {[entries -> {"file", "dir"}] :
           entries \in {S \in SUBSET Slots : Cardinality(S) <= MaxEntries}}

\* One call of find_config_file.
InitFind ==
  /\ \E files \in FileSystems : ParserSetup(NewPythonParser, <<>>, files)
  /\ client = NoClient
  /\ environ = <<>>
  /\ \E start_dir \in StartDirs :
       frame = [op |-> "find_config_file", start_dir |-> start_dir,
                current |-> start_dir, at |-> "walk"]
  /\ outcome = Pending

\* One turn of the while loop.
WalkUp ==
  /\ frame.op = "find_config_file"
  /\ frame.at = "walk"
  /\ outcome.kind = "pending"
  /\ LET falkorrc == Append(frame.current, ".falkorrc")
         falkor_toml == Append(frame.current, "falkor.toml")
         parent == Parent(frame.current)
     IN IF IsConfigFile(fs, falkorrc)
        THEN outcome' = Returned(PathValue(falkorrc)) /\ UNCHANGED frame
        ELSE IF IsConfigFile(fs, falkor_toml)
        THEN outcome' = Returned(PathValue(falkor_toml)) /\ UNCHANGED frame
        ELSE IF parent = frame.current
        THEN frame' = [frame EXCEPT !.at = "home"] /\ UNCHANGED outcome
        ELSE frame' = [frame EXCEPT !.current = parent] /\ UNCHANGED outcome
  /\ UNCHANGED <<parser, environ, client>>

\* What follows the loop.
CheckHome ==
  /\ frame.op = "find_config_file"
  /\ frame.at = "home"
  /\ outcome.kind = "pending"
  /\ LET home_falkorrc == Append(Home, ".falkorrc")
         config_toml == Append(Append(Home, ".config"), "falkor.toml")
     IN outcome' =
          IF IsConfigFile(fs, home_falkorrc) THEN Returned(PathValue(home_falkorrc))
          ELSE IF IsConfigFile(fs, config_toml) THEN Returned(PathValue(config_toml))
          ELSE Returned(NoneValue)
  /\ UNCHANGED <<parser, environ, frame, client>>

NextFind ==
  \/ WalkUp
  \/ CheckHome

\* The call goes on until it returns.
SpecFind == InitFind /\ [][NextFind]_vars /\ WF_vars(NextFind)

\* The directories from dir up to the root.
UpFrom(dir) == {SubSeq(dir, 1, k) : k \in 0..Len(dir)}

\* The config file of a directory: .falkorrc before falkor.toml.
RegularFiles == {path \in DOMAIN fs : fs[path] = "file"}
ConfigIn(dir) ==
  IF Append(dir, ".falkorrc") \in RegularFiles THEN Append(dir, ".falkorrc")
  ELSE Append(dir, "falkor.toml")
WithConfig(dirs) ==
  {dir \in dirs : \E name \in ConfigNames : Append(dir, name) \in RegularFiles}

\* What find_config_file is to return for start_dir.
Found(start_dir) ==
  IF WithConfig(UpFrom(start_dir)) # {}
  THEN PathValue(ConfigIn(CHOOSE dir \in WithConfig(UpFrom(start_dir)) :
                            \A d \in WithConfig(UpFrom(start_dir)) : Len(d) <= Len(dir)))
  ELSE IF <<"h", ".falkorrc">> \in RegularFiles THEN PathValue(<<"h", ".falkorrc">>)
  ELSE IF <<"h", ".config", "falkor.toml">> \in RegularFiles
  THEN PathValue(<<"h", ".config", "falkor.toml">>)
  ELSE NoneValue

FindReturned == frame.op = "find_config_file" /\ outcome.kind = "returned"

\* C23: find_config_file returns the config file of the nearest directory
\* from start_dir up to the root that has one as a regular file, .falkorrc
\* before falkor.toml; with none on that path ~/.falkorrc, then
\* ~/.config/falkor.toml; None exactly when none of these is a regular file;
\* and every call returns.
C23_NearestConfigFile ==
  /\ [](FindReturned =>
          /\ outcome.value = Found(frame.start_dir)
          /\ (outcome.value = NoneValue <=>
                /\ WithConfig(UpFrom(frame.start_dir)) = {}
                /\ <<"h", ".falkorrc">> \notin RegularFiles
                /\ <<"h", ".config", "falkor.toml">> \notin RegularFiles))
  /\ <>FindReturned

\* C23 witness: the call has returned the falkor.toml of a directory above
\* start_dir, start_dir holding a directory named .falkorrc.
C23_Witness ==
  /\ FindReturned
  /\ outcome.value.type = "Path"
  /\ Len(outcome.value.v) = Len(frame.start_dir)
  /\ outcome.value.v[Len(outcome.value.v)] = "falkor.toml"
  /\ Append(frame.start_dir, ".falkorrc") \in DOMAIN fs

\* ------------------------------------------------- load_config_file
\* What a path leads to other than nothing: a directory, a file that cannot
\* be read as text, or a file with its text.
Directory == [kind |-> "Directory"]
Unreadable == [kind |-> "Unreadable"]
TextFile(content) == [kind |-> "TextFile", content |-> content]

ConfigError == <<"C", "o", "n", "f", "i", "g", "E", "r", "r", "o", "r">>
OSError == <<"O", "S", "E", "r", "r", "o", "r">>
YAMLError == <<"Y", "A", "M", "L", "E", "r", "r", "o", "r">>
JSONDecodeError ==
  <<"J", "S", "O", "N", "D", "e", "c", "o", "d", "e", "E", "r", "r", "o", "r">>
TOMLDecodeError ==
  <<"T", "O", "M", "L", "D", "e", "c", "o", "d", "e", "E", "r", "r", "o", "r">>

\* The file names of the corpus.
FileFalkorrc == <<".", "f", "a", "l", "k", "o", "r", "r", "c">>
FileYaml == <<"c", ".", "y", "a", "m", "l">>
FileYml == <<"c", ".", "y", "m", "l">>
FileJson == <<"c", ".", "j", "s", "o", "n">>
FileToml == <<"f", "a", "l", "k", "o", "r", ".", "t", "o", "m", "l">>
FileIni == <<"c", ".", "i", "n", "i">>
FilePlain == <<"f", "a", "l", "k", "o", "r", "r", "c">>
FileNames == {FileFalkorrc, FileYaml, FileYml, FileJson, FileToml, FileIni, FilePlain}

\* The documents of the corpus.
DocEmpty == <<>>
DocBraces == <<"{", "}">>
DocList == <<"[", "1", "]">>
DocWord == <<"a">>
DocYaml == <<"a", ":", " ", "1">>
DocToml == <<"a", "=", "1">>
DocBroken == <<"{">>
DocObject == <<"{", "\"", "a", "\"", ":", " ", "1", "}">>
DocNull == <<"n", "u", "l", "l">>
Documents ==
  {DocEmpty, DocBraces, DocList, DocWord, DocYaml, DocToml, DocBroken, DocObject,
   DocNull}

\* Path.suffix: the name from its last "." on, when that is neither its
\* first nor its last character.
Suffix(name) ==
  IF \E i \in 2..(Len(name) - 1) : name[i] = "."
  THEN LET i == CHOOSE k \in 2..(Len(name) - 1) :
                  name[k] = "." /\ \A l \in (k + 1)..Len(name) : name[l] # "."
       IN IF name[Len(name)] = "." THEN <<>> ELSE SubSeq(name, i, Len(name))
  ELSE <<>>

\* file_path.read_text()
ReadText(files, file_path) ==
  IF files[file_path].kind = "TextFile" THEN Returned(Str(files[file_path].content))
  ELSE Raised(OSError)

\* yaml.safe_load on the documents of the corpus.
YamlSafeLoad(content) ==
  CASE content = DocEmpty -> Returned(NoneValue)
    [] content = DocBraces -> Returned(Dict(<<>>))
    [] content = DocList -> Returned(List(<<Integer(1)>>))
    [] content = DocWord -> Returned(Str(DocWord))
    [] content = DocYaml -> Returned(Dict(<<Item("a", Integer(1))>>))
    [] content = DocToml -> Returned(Str(DocToml))
    [] content = DocObject -> Returned(Dict(<<Item("a", Integer(1))>>))
    [] content = DocNull -> Returned(NoneValue)
    [] OTHER -> Raised(YAMLError)

\* json.loads on the documents of the corpus.
JsonLoads(content) ==
  CASE content = DocBraces -> Returned(Dict(<<>>))
    [] content = DocList -> Returned(List(<<Integer(1)>>))
    [] content = DocObject -> Returned(Dict(<<Item("a", Integer(1))>>))
    [] content = DocNull -> Returned(NoneValue)
    [] OTHER -> Raised(JSONDecodeError)

\* tomli.loads on the documents of the corpus.
TomliLoads(content) ==
  CASE content = DocEmpty -> Returned(Dict(<<>>))
    [] content = DocList -> Returned(Dict(<<Item("1", Dict(<<>>))>>))
    [] content = DocToml -> Returned(Dict(<<Item("a", Integer(1))>>))
    [] OTHER -> Raised(TOMLDecodeError)

\* bool(value)
Truthy(value) ==
  CASE value.type = "NoneType" -> FALSE
    [] value.type \in {"dict", "list", "str"} -> value.v # <<>>
    [] value.type = "int" -> value.v # 0
    [] value.type = "bool" -> value.v
    [] OTHER -> TRUE

\* load_config_file, HAS_YAML and HAS_TOML being what the imports gave.
LoadConfigFile(files, file_path, HAS_YAML, HAS_TOML) ==
  IF files[file_path] = NoFile THEN Raised(ConfigError)
  ELSE IF ReadText(files, file_path).kind = "raised" THEN Raised(ConfigError)
  ELSE LET content == ReadText(files, file_path).value.v
           suffix == Suffix(file_path)
           yaml == YamlSafeLoad(content)
           json == JsonLoads(content)
           toml == TomliLoads(content)
       IN IF file_path = FileFalkorrc
             \/ suffix \in {SubSeq(FileYaml, 2, 6), SubSeq(FileYml, 2, 5),
                            SubSeq(FileJson, 2, 6)}
          THEN IF /\ HAS_YAML
                  /\ suffix \in {SubSeq(FileYaml, 2, 6), SubSeq(FileYml, 2, 5), <<>>}
                  /\ yaml.kind = "returned"
               THEN IF Truthy(yaml.value) THEN yaml ELSE Returned(Dict(<<>>))
               ELSE IF json.kind = "returned" THEN json
               ELSE Raised(ConfigError)
          ELSE IF suffix = SubSeq(FileToml, 7, 11)
          THEN IF ~HAS_TOML THEN Raised(ConfigError)
               ELSE IF toml.kind = "returned" THEN toml
               ELSE Raised(ConfigError)
          ELSE Raised(ConfigError)

\* One call of load_config_file on a path, with or without the yaml and
\* toml modules.
InitLoad ==
  /\ \E file_path \in FileNames :
       /\ \E entry \in {NoFile, Directory, Unreadable}
                         \cup {TextFile(content) : content \in Documents} :
            ParserSetup(NewPythonParser, <<>>, [q \in {file_path} |-> entry])
       /\ \E HAS_YAML \in BOOLEAN : \E HAS_TOML \in BOOLEAN :
            frame = [op |-> "load_config_file", file_path |-> file_path,
                     HAS_YAML |-> HAS_YAML, HAS_TOML |-> HAS_TOML]
  /\ client = NoClient
  /\ environ = <<>>
  /\ outcome = Pending

DoLoadConfigFile ==
  /\ frame.op = "load_config_file"
  /\ outcome.kind = "pending"
  /\ outcome' = LoadConfigFile(fs, frame.file_path, frame.HAS_YAML, frame.HAS_TOML)
  /\ UNCHANGED <<parser, environ, frame, client>>

SpecLoad == InitLoad /\ [][DoLoadConfigFile]_vars

\* C24: load_config_file returns a dict or raises ConfigError, whatever the
\* path and the content.
C24_DictOrConfigError ==
  frame.op = "load_config_file" =>
    /\ outcome.kind = "returned" => outcome.value.type = "dict"
    /\ outcome.kind = "raised" => outcome.value = Str(ConfigError)

\* The calls caller c's run recorded, each with the expression it calls.
RecordedCalls(c) ==
  UNION {{[rel |-> relationships[c][j], func |-> node.f1[1]] :
            node \in CallNodesAt(c, relationships[c][j].properties.line)} :
           j \in RelsOfType(c, "CALLS")}

\* C25: every recorded call is of an identifier or of an attribute chain
\* that ends in one, and its call_name is the full dotted path as written.
C25_FullDottedPath ==
  \A c \in Finished : \A call \in RecordedCalls(c) :
    /\ IsDottedName(call.func)
    /\ call.rel.properties.call_name = DottedText(call.func)

\* ------------------------------------------------------- graph schema
\* GraphSchema.CONSTRAINTS
CONSTRAINTS ==
  <<"CREATE CONSTRAINT file_path_unique IF NOT EXISTS FOR (f:File) REQUIRE f.filePath IS UNIQUE",
    "CREATE CONSTRAINT module_qualified_name_unique IF NOT EXISTS FOR (m:Module) REQUIRE m.qualifiedName IS UNIQUE",
    "CREATE CONSTRAINT class_qualified_name_unique IF NOT EXISTS FOR (c:Class) REQUIRE c.qualifiedName IS UNIQUE",
    "CREATE CONSTRAINT function_qualified_name_unique IF NOT EXISTS FOR (f:Function) REQUIRE f.qualifiedName IS UNIQUE">>

\* GraphSchema.INDEXES
INDEXES ==
  <<"CREATE INDEX file_path_idx IF NOT EXISTS FOR (f:File) ON (f.filePath)",
    "CREATE INDEX file_language_idx IF NOT EXISTS FOR (f:File) ON (f.language)",
    "CREATE INDEX module_name_idx IF NOT EXISTS FOR (m:Module) ON (m.qualifiedName)",
    "CREATE INDEX module_external_idx IF NOT EXISTS FOR (m:Module) ON (m.is_external)",
    "CREATE INDEX class_name_idx IF NOT EXISTS FOR (c:Class) ON (c.qualifiedName)",
    "CREATE INDEX function_name_idx IF NOT EXISTS FOR (f:Function) ON (f.qualifiedName)",
    "CREATE INDEX concept_name_idx IF NOT EXISTS FOR (c:Concept) ON (c.name)",
    "CREATE INDEX attribute_name_idx IF NOT EXISTS FOR (a:Attribute) ON (a.name)",
    "CREATE INDEX variable_name_idx IF NOT EXISTS FOR (v:Variable) ON (v.name)",
    "CREATE INDEX function_simple_name_idx IF NOT EXISTS FOR (f:Function) ON (f.name)",
    "CREATE INDEX class_simple_name_idx IF NOT EXISTS FOR (c:Class) ON (c.name)",
    "CREATE INDEX file_exports_idx IF NOT EXISTS FOR (f:File) ON (f.exports)",
    "CREATE FULLTEXT INDEX function_docstring_idx IF NOT EXISTS FOR (f:Function) ON EACH [f.docstring]",
    "CREATE FULLTEXT INDEX class_docstring_idx IF NOT EXISTS FOR (c:Class) ON EACH [c.docstring]",
    "CREATE INDEX class_complexity_idx IF NOT EXISTS FOR (c:Class) ON (c.complexity, c.is_abstract)",
    "CREATE INDEX function_complexity_idx IF NOT EXISTS FOR (f:Function) ON (f.complexity, f.is_async)",
    "CREATE INDEX file_language_loc_idx IF NOT EXISTS FOR (f:File) ON (f.language, f.loc)",
    "CREATE INDEX inherits_order_idx IF NOT EXISTS FOR ()-[r:INHERITS]-() ON (r.order)">>

\* The most statements of initialize for which execute_query raises.
MaxFailing == 2

\* The longest name the database returns.
MaxName == 2

\* A letter, a hyphen, a line feed and a blank.
NameAlphabet == {"a", "-", "\n", " "}
IndexNames == SeqsOf(NameAlphabet, 1, MaxName)

\* The characters of the class [a-zA-Z0-9_-].
SafeChars == Letters \cup Digits \cup {"_", "-"}

\* is_safe_name taking "$" as the end of the name.
IsSafeNameToEnd(name) ==
  name # <<>> /\ \A i \in 1..Len(name) : name[i] \in SafeChars

\* is_safe_name: re.match of ^[a-zA-Z0-9_-]+$, whose "$" matches at the end
\* of the name and also before a line feed that ends it.
IsSafeName(name) ==
  \/ IsSafeNameToEnd(name)
  \/ /\ Len(name) > 1
     /\ name[Len(name)] = "\n"
     /\ IsSafeNameToEnd(SubSeq(name, 1, Len(name) - 1))

\* A statement as execute_query gets it: a text, and the name an f-string
\* puts after it.
Statement(text) == [text |-> text, name |-> <<>>]

\* f"DROP CONSTRAINT {name}" and f"DROP INDEX {name}"
DropStatement(text, name) == [text |-> text, name |-> name]

SHOW_CONSTRAINTS == "SHOW CONSTRAINTS YIELD name RETURN name"
SHOW_INDEXES ==
  "SHOW INDEXES YIELD name WHERE name <> 'node_label_index' AND name <> 'relationship_type_index' RETURN name"

\* A client through which nothing has been executed: what SHOW CONSTRAINTS
\* and SHOW INDEXES return, and the statements of initialize that raise.
Neo4jClient(constraints, indexes, failing) ==
  [constraints |-> constraints, indexes |-> indexes, failing |-> failing,
   executed |-> <<>>]

\* client.execute_query(query) as far as the client keeps it.
ExecuteQuery(c, query) == [c EXCEPT !.executed = Append(c.executed, query)]

\* One call of initialize, or of drop_all, on a GraphSchema.
InitSchema ==
  /\ ParserIdle
  /\ environ = <<>>
  /\ outcome = Pending
  /\ \/ /\ \E failing \in {S \in SUBSET ({CONSTRAINTS[i] : i \in 1..Len(CONSTRAINTS)}
                                          \cup {INDEXES[i] : i \in 1..Len(INDEXES)}) :
                             Cardinality(S) <= MaxFailing} :
             client = Neo4jClient(<<>>, <<>>, failing)
        /\ frame = [op |-> "initialize", at |-> "create_constraints", i |-> 1,
                    records |-> <<>>]
     \/ /\ \E constraints \in SeqsOf(IndexNames, 0, 1) :
             \E indexes \in SeqsOf(IndexNames, 0, 1) :
               client = Neo4jClient(constraints, indexes, {})
        /\ frame = [op |-> "drop_all", at |-> "show constraints", i |-> 1,
                    records |-> <<>>]

\* Where initialize stops at the first statement that raises.
AfterCreateUncaught(call, statements, raised) ==
  IF raised THEN [call EXCEPT !.at = "raised"]
  ELSE IF call.i < Len(statements) THEN [call EXCEPT !.i = call.i + 1]
  ELSE [call EXCEPT !.at = IF call.at = "create_constraints" THEN "create_indexes"
                            ELSE "returned",
                    !.i = 1]

\* Where initialize is after a statement: the except clause takes what was
\* raised, and the loop goes on.
AfterCreate(call, statements, raised) ==
  IF call.i < Len(statements) THEN [call EXCEPT !.i = call.i + 1]
  ELSE [call EXCEPT !.at = IF call.at = "create_constraints" THEN "create_indexes"
                            ELSE "returned",
                    !.i = 1]

\* One turn of the loop of create_constraints or create_indexes.
Create ==
  /\ frame.op = "initialize"
  /\ frame.at \in {"create_constraints", "create_indexes"}
  /\ LET statements == IF frame.at = "create_constraints" THEN CONSTRAINTS ELSE INDEXES
         statement == statements[frame.i]
         next == AfterCreate(frame, statements, statement \in client.failing)
     IN /\ client' = ExecuteQuery(client, Statement(statement))
        /\ frame' = next
        /\ outcome' = IF next.at = "returned" THEN Returned(NoneValue)
                      ELSE IF next.at = "raised" THEN Raised(OSError)
                      ELSE outcome
  /\ UNCHANGED <<parser, environ>>

\* drop_all asks for the constraints, and after the last of them for the
\* indexes.
Show ==
  /\ frame.op = "drop_all"
  /\ \/ /\ frame.at = "show constraints"
        /\ client' = ExecuteQuery(client, Statement(SHOW_CONSTRAINTS))
        /\ frame' = [frame EXCEPT !.at = "drop constraints",
                                  !.records = client.constraints]
     \/ /\ frame.at = "drop constraints"
        /\ frame.records = <<>>
        /\ client' = ExecuteQuery(client, Statement(SHOW_INDEXES))
        /\ frame' = [frame EXCEPT !.at = "drop indexes", !.records = client.indexes]
  /\ UNCHANGED <<parser, environ, outcome>>

\* One turn of a loop of drop_all: the name is dropped when is_safe_name
\* takes it, and execute_query returns or raises; what it raises leaves
\* drop_all.
Drop ==
  /\ frame.op = "drop_all"
  /\ frame.at \in {"drop constraints", "drop indexes"}
  /\ frame.records # <<>>
  /\ LET name == Head(frame.records)
         text == IF frame.at = "drop constraints" THEN "DROP CONSTRAINT "
                 ELSE "DROP INDEX "
     IN IF IsSafeName(name)
        THEN /\ client' = ExecuteQuery(client, DropStatement(text, name))
             /\ \/ /\ frame' = [frame EXCEPT !.records = Tail(frame.records)]
                   /\ UNCHANGED outcome
                \/ /\ frame' = [frame EXCEPT !.at = "raised"]
                   /\ outcome' = Raised(OSError)
        ELSE /\ frame' = [frame EXCEPT !.records = Tail(frame.records)]
             /\ UNCHANGED <<client, outcome>>
  /\ UNCHANGED <<parser, environ>>

\* drop_all returns after the last index.
Dropped ==
  /\ frame.op = "drop_all"
  /\ frame.at = "drop indexes"
  /\ frame.records = <<>>
  /\ frame' = [frame EXCEPT !.at = "returned"]
  /\ outcome' = Returned(NoneValue)
  /\ UNCHANGED <<parser, environ, client>>

NextSchema ==
  \/ Create
  \/ Show
  \/ Drop
  \/ Dropped

\* A call goes on until it returns or raises.
SpecSchema == InitSchema /\ [][NextSchema]_vars /\ WF_vars(NextSchema)

\* The statements executed so far that drop something.
Drops ==
  {client.executed[i] : i \in {k \in 1..Len(client.executed) :
                                 client.executed[k].text \in
                                   {"DROP CONSTRAINT ", "DROP INDEX "}}}

\* C26: every DROP CONSTRAINT and DROP INDEX statement drop_all executes
\* names something made of ASCII letters, digits, "_" and "-" only.
C26_OnlySafeNamesDropped ==
  frame.op = "drop_all" =>
    \A statement \in Drops : \A i \in 1..Len(statement.name) :
      statement.name[i] \in SafeChars

\* The texts of the statements executed so far, in order.
ExecutedTexts == [i \in 1..Len(client.executed) |-> client.executed[i].text]

\* C27: initialize executes the statements of CONSTRAINTS in list order and
\* then those of INDEXES in list order, each once, whichever of them raise:
\* nothing execute_query raises leaves initialize, and initialize returns
\* after the last statement.
C27_EveryStatementAttempted ==
  /\ [](frame.op = "initialize" =>
          /\ outcome.kind # "raised"
          /\ Len(ExecutedTexts) <= Len(CONSTRAINTS \o INDEXES)
          /\ ExecutedTexts = SubSeq(CONSTRAINTS \o INDEXES, 1, Len(ExecutedTexts))
          /\ outcome.kind = "returned" => ExecutedTexts = CONSTRAINTS \o INDEXES)
  /\ <>(frame.op = "initialize" => outcome.kind = "returned")

\* C27 witness: initialize has returned, execute_query having raised for the
\* first constraint and for an index.
C27_Witness ==
  /\ frame.op = "initialize"
  /\ outcome.kind = "returned"
  /\ CONSTRAINTS[1] \in client.failing
  /\ \E i \in 1..Len(INDEXES) : INDEXES[i] \in client.failing
  /\ Len(client.executed) = Len(CONSTRAINTS) + Len(INDEXES)

\* C28: no INHERITS and no OVERRIDES relationship of a parse leads from a
\* name to the same name.
C28_NoSelfLoop ==
  \A c \in Finished :
    \A j \in RelsOfType(c, "INHERITS") \cup RelsOfType(c, "OVERRIDES") :
      relationships[c][j].source_id # relationships[c][j].target_id

\* The qualified names of the Function entities of caller c's run.
FunctionNames(c) ==
  {entities[c][i].qualified_name :
     i \in {k \in 1..Len(entities[c]) : entities[c][k].node_type = "Function"}}

\* C29: for every OVERRIDES relationship of a parse, from method m of class
\* C to method m of class B of file P, the parse has an INHERITS relationship
\* from P::C to P::B, and P::C.m and P::B.m are qualified names of Function
\* entities of the parse.
C29_OverridesFollowInherits ==
  \A c \in Finished : \A j \in RelsOfType(c, "OVERRIDES") :
    LET rel == relationships[c][j]
        child == paths[c] \o ColonColon \o rel.properties.child_class
        parent == paths[c] \o ColonColon \o rel.properties.parent_class
    IN /\ rel.source_id = child \o Dot \o rel.properties.method_name
       /\ rel.target_id = parent \o Dot \o rel.properties.method_name
       /\ \E i \in RelsOfType(c, "INHERITS") :
            /\ relationships[c][i].source_id = child
            /\ relationships[c][i].target_id = parent
       /\ rel.source_id \in FunctionNames(c)
       /\ rel.target_id \in FunctionNames(c)

\* C29 witness: a run emitted an OVERRIDES relationship between two classes,
\* the base being written as a subscript as well.
C29_Witness ==
  \E c \in Finished : \E j \in RelsOfType(c, "OVERRIDES") :
    /\ relationships[c][j].properties.child_class
         # relationships[c][j].properties.parent_class
    /\ Cardinality({i \in RelsOfType(c, "INHERITS") :
                      /\ relationships[c][i].source_id
                           = paths[c] \o ColonColon
                               \o relationships[c][j].properties.child_class
                      /\ relationships[c][i].target_id
                           = paths[c] \o ColonColon
                               \o relationships[c][j].properties.parent_class}) > 1

\* The sources a file of a run with failures may hold.
SourcesHeld == FailureSources \cup {RewrittenSource}

\* C30: the File entity of a run carries the hash and the line count of the
\* content parse read for the tree of that run, whatever is written to the
\* file in between.
C30_FileEntityOfParsedContent ==
  \A c \in Callers : pc[c] \in {"extracted", "done"} =>
    \A source \in {s \in SourcesHeld : IsValidSource(s)} :
      NumberFrom(source, 0).node = tree[c] =>
        /\ entities[c][1].hash = Md5(source)
        /\ entities[c][1].loc = CountLoc(source)
        /\ entities[c][1].line_end = CountLoc(source)

=============================================================================
